---- MODULE Spec2Model ----
(***************************************************************************)
(* Model of the data-analysis agent workflow (agent/graph.py,              *)
(* agent/nodes.py, agent/state.py, tools/bigquery_tools.py).               *)
(*                                                                         *)
(* Python str values are sequences of one-character strings, so that       *)
(* lower(), strip(), split(), replace(), startswith() and the `in`         *)
(* substring test are computed as Python computes them.  Optional values   *)
(* are None (the empty set) or Some(v) (the singleton {v}).                *)
(***************************************************************************)
EXTENDS Integers, Sequences, FiniteSets, TLC

VARIABLES
    pc,        \* the node (or edge function) the graph runs next
    state,     \* the AgentState record threaded through the nodes
    n_generate,\* history: how many times generate_sql_node has run (saturating)
    n_exec,    \* history: how many times execute_query_direct was called (saturating)
    n_analyze, \* history: how many times analyze_results_node has run (saturating)
    bq_client, \* the module-level _bq_client of tools/bigquery_tools.py
    n_fetch,   \* history: how many times get_all_table_schemas was called (saturating)
    exec_log,  \* history: one entry per execute_query_node run (first MaxLog runs)
    prompt,    \* history: the prompt last rendered for the generation backend
    probe      \* a direct call of one function, as the unit tests make it: its
               \* name, its argument and, once it has returned, its result

vars == <<pc, state, bq_client, n_generate, n_fetch, n_exec, n_analyze, exec_log, prompt, probe>>

----------------------------------------------------------------------------
\* Bounds of the model

\* largest number of rows the executor returns
MaxRows == 2
\* history counters saturate at this value
MaxCount == 4
\* exec_log keeps the first MaxLog execute_query_node runs
MaxLog == 4
\* largest retry_count drawn for the routing and retry-policy inputs
MaxProbeRetry == 3

\* most attempts asked of the generation client, and calls a backend answers
MaxAttempts == 3
MaxCalls == 3

----------------------------------------------------------------------------
\* Optional values

None == {}

Some(v) == {v}

Val(o) == CHOOSE v \in o : TRUE

\* Python truthiness of an Optional[str]: None and "" are falsy
Truthy(o) == o # None /\ Val(o) # <<>>

----------------------------------------------------------------------------
\* Python str operations on sequences of characters

UpperChars ==
    <<"A","B","C","D","E","F","G","H","I","J","K","L","M","N","O","P","Q","R","S","T","U","V","W",
      "X","Y","Z">>

LowerChars ==
    <<"a","b","c","d","e","f","g","h","i","j","k","l","m","n","o","p","q","r","s","t","u","v","w",
      "x","y","z">>

LowerChar(c) ==
    IF \E i \in 1..26 : UpperChars[i] = c
    THEN LowerChars[CHOOSE i \in 1..26 : UpperChars[i] = c]
    ELSE c

\* str.lower()
Lower(s) == [i \in 1..Len(s) |-> LowerChar(s[i])]

Whitespace == {" ", "\n", "\t", "\r"}

SetMin(S) == CHOOSE x \in S : \A y \in S : x <= y

SetMax(S) == CHOOSE x \in S : \A y \in S : x >= y

\* str.strip()
Strip(s) ==
    LET keep == {i \in 1..Len(s) : s[i] \notin Whitespace}
    IN  IF keep = {} THEN <<>> ELSE SubSeq(s, SetMin(keep), SetMax(keep))

\* str.startswith(p)
StartsWith(s, p) == Len(s) >= Len(p) /\ SubSeq(s, 1, Len(p)) = p

\* the Python test `t in s` on two str values
IsSubstring(t, s) == \E i \in 0..(Len(s) - Len(t)) : SubSeq(s, i + 1, i + Len(t)) = t

\* str.replace(old, new), old non-empty: leftmost non-overlapping occurrences
RECURSIVE Replace(_, _, _)
Replace(s, old, new) ==
    IF Len(s) < Len(old) THEN s
    ELSE IF SubSeq(s, 1, Len(old)) = old
         THEN new \o Replace(SubSeq(s, Len(old) + 1, Len(s)), old, new)
         ELSE <<s[1]>> \o Replace(Tail(s), old, new)

\* str.split(): the maximal runs of non-whitespace characters
RECURSIVE SplitFrom(_, _, _)
SplitFrom(s, i, cur) ==
    IF i > Len(s) THEN (IF cur = <<>> THEN <<>> ELSE <<cur>>)
    ELSE IF s[i] \in Whitespace
         THEN (IF cur = <<>> THEN <<>> ELSE <<cur>>) \o SplitFrom(s, i + 1, <<>>)
         ELSE SplitFrom(s, i + 1, Append(cur, s[i]))

Split(s) == SplitFrom(s, 1, <<>>)

\* str.count(c) for a one-character c
Count(s, c) == Cardinality({i \in 1..Len(s) : s[i] = c})

\* the elements of a sequence
Range(q) == {q[i] : i \in 1..Len(q)}

\* str(n) for a small non-negative integer
Digits == <<"0","1","2","3","4","5","6","7","8","9">>

RECURSIVE Str(_)
Str(n) == IF n < 10 THEN <<Digits[n + 1]>> ELSE Str(n \div 10) \o <<Digits[(n % 10) + 1]>>

\* sep.join(parts)
RECURSIVE Join(_, _)
Join(sep, parts) ==
    IF parts = <<>> THEN <<>>
    ELSE IF Len(parts) = 1 THEN parts[1]
    ELSE parts[1] \o sep \o Join(sep, Tail(parts))

----------------------------------------------------------------------------
\* Text literals of the program

\* the backtick character, which a string literal here cannot hold
Backtick == "<backtick>"


\* 'No SQL query to execute'
NO_SQL_ERROR ==
    <<"N","o"," ","S","Q","L"," ","q","u","e","r","y"," ","t","o"," ","e","x","e","c","u","t","e">>
\* 'Query execution error: '
EXEC_ERROR_PREFIX ==
    <<"Q","u","e","r","y"," ","e","x","e","c","u","t","i","o","n"," ","e","r","r","o","r",":"," ">>
\* 'Invalid SQL: '
INVALID_SQL_PREFIX ==
    <<"I","n","v","a","l","i","d"," ","S","Q","L",":"," ">>
\* 'SQL generation error: '
SQL_GEN_ERROR_PREFIX ==
    <<"S","Q","L"," ","g","e","n","e","r","a","t","i","o","n"," ","e","r","r","o","r",":"," ">>
\* 'Schema retrieval error: '
SCHEMA_ERROR_PREFIX ==
    <<"S","c","h","e","m","a"," ","r","e","t","r","i","e","v","a","l"," ","e","r","r","o","r",":",
      " ">>
\* 'Intent analysis error: '
INTENT_ERROR_PREFIX ==
    <<"I","n","t","e","n","t"," ","a","n","a","l","y","s","i","s"," ","e","r","r","o","r",":"," ">>
\* 'Insight generation error: '
INSIGHT_ERROR_PREFIX ==
    <<"I","n","s","i","g","h","t"," ","g","e","n","e","r","a","t","i","o","n"," ","e","r","r","o",
      "r",":"," ">>
\* 'BigQuery client not initialized. Call initialize_bigquery_client() first.'
CLIENT_NOT_INITIALIZED ==
    <<"B","i","g","Q","u","e","r","y"," ","c","l","i","e","n","t"," ","n","o","t"," ","i","n","i",
      "t","i","a","l","i","z","e","d","."," ","C","a","l","l"," ","i","n","i","t","i","a","l","i",
      "z","e","_","b","i","g","q","u","e","r","y","_","c","l","i","e","n","t","(",")"," ","f","i",
      "r","s","t",".">>
\* 'Query contains dangerous keyword: '
DANGEROUS_REASON_PREFIX ==
    <<"Q","u","e","r","y"," ","c","o","n","t","a","i","n","s"," ","d","a","n","g","e","r","o","u",
      "s"," ","k","e","y","w","o","r","d",":"," ">>
\* '. Only SELECT queries are allowed.'
DANGEROUS_REASON_SUFFIX ==
    <<"."," ","O","n","l","y"," ","S","E","L","E","C","T"," ","q","u","e","r","i","e","s"," ","a",
      "r","e"," ","a","l","l","o","w","e","d",".">>
\* 'Query must be a SELECT statement.'
NOT_SELECT_REASON ==
    <<"Q","u","e","r","y"," ","m","u","s","t"," ","b","e"," ","a"," ","S","E","L","E","C","T"," ",
      "s","t","a","t","e","m","e","n","t",".">>
\* 'Unbalanced parentheses in query.'
UNBALANCED_REASON ==
    <<"U","n","b","a","l","a","n","c","e","d"," ","p","a","r","e","n","t","h","e","s","e","s"," ",
      "i","n"," ","q","u","e","r","y",".">>
\* 'select'
SELECT_KW ==
    <<"s","e","l","e","c","t">>
\* '<backtick><backtick><backtick>sql'
FENCE_SQL ==
    <<Backtick,Backtick,Backtick,"s","q","l">>
\* '<backtick><backtick><backtick>'
FENCE ==
    <<Backtick,Backtick,Backtick>>
\* 'customer_segmentation'
CUSTOMER_SEGMENTATION ==
    <<"c","u","s","t","o","m","e","r","_","s","e","g","m","e","n","t","a","t","i","o","n">>
\* 'product_performance'
PRODUCT_PERFORMANCE ==
    <<"p","r","o","d","u","c","t","_","p","e","r","f","o","r","m","a","n","c","e">>
\* 'sales_trends'
SALES_TRENDS ==
    <<"s","a","l","e","s","_","t","r","e","n","d","s">>
\* 'geographic_patterns'
GEOGRAPHIC_PATTERNS ==
    <<"g","e","o","g","r","a","p","h","i","c","_","p","a","t","t","e","r","n","s">>
\* 'general_query'
GENERAL_QUERY ==
    <<"g","e","n","e","r","a","l","_","q","u","e","r","y">>
\* 'No data was returned from the query. The requested analysis could not be completed.'
NO_DATA_INSIGHTS ==
    <<"N","o"," ","d","a","t","a"," ","w","a","s"," ","r","e","t","u","r","n","e","d"," ","f","r",
      "o","m"," ","t","h","e"," ","q","u","e","r","y","."," ","T","h","e"," ","r","e","q","u","e",
      "s","t","e","d"," ","a","n","a","l","y","s","i","s"," ","c","o","u","l","d"," ","n","o","t",
      " ","b","e"," ","c","o","m","p","l","e","t","e","d",".">>
\* 'Query executed successfully and returned '
FALLBACK_HEAD ==
    <<"Q","u","e","r","y"," ","e","x","e","c","u","t","e","d"," ","s","u","c","c","e","s","s","f",
      "u","l","l","y"," ","a","n","d"," ","r","e","t","u","r","n","e","d"," ">>
\* ' rows. '
FALLBACK_ROWS ==
    <<" ","r","o","w","s","."," ">>
\* 'Columns: '
FALLBACK_COLUMNS ==
    <<"C","o","l","u","m","n","s",":"," ">>
\* ', '
FALLBACK_SEP ==
    <<","," ">>
\* '. '
FALLBACK_DOT ==
    <<"."," ">>
\* 'However, detailed analysis could not be generated due to an error.'
FALLBACK_TAIL ==
    <<"H","o","w","e","v","e","r",","," ","d","e","t","a","i","l","e","d"," ","a","n","a","l","y",
      "s","i","s"," ","c","o","u","l","d"," ","n","o","t"," ","b","e"," ","g","e","n","e","r","a",
      "t","e","d"," ","d","u","e"," ","t","o"," ","a","n"," ","e","r","r","o","r",".">>
\* 'I apologize, but I encountered an error processing your request:\n\n'
APOLOGY_HEAD ==
    <<"I"," ","a","p","o","l","o","g","i","z","e",","," ","b","u","t"," ","I"," ","e","n","c","o",
      "u","n","t","e","r","e","d"," ","a","n"," ","e","r","r","o","r"," ","p","r","o","c","e","s",
      "s","i","n","g"," ","y","o","u","r"," ","r","e","q","u","e","s","t",":","\n","\n">>
\* '\n\n'
APOLOGY_GAP ==
    <<"\n","\n">>
\* 'Please try rephrasing your question or ask something else.'
APOLOGY_TAIL ==
    <<"P","l","e","a","s","e"," ","t","r","y"," ","r","e","p","h","r","a","s","i","n","g"," ","y",
      "o","u","r"," ","q","u","e","s","t","i","o","n"," ","o","r"," ","a","s","k"," ","s","o","m",
      "e","t","h","i","n","g"," ","e","l","s","e",".">>
\* '\n\n(Note: There was a minor issue: '
NOTE_HEAD ==
    <<"\n","\n","(","N","o","t","e",":"," ","T","h","e","r","e"," ","w","a","s"," ","a"," ","m","i",
      "n","o","r"," ","i","s","s","u","e",":"," ">>
\* ')'
NOTE_TAIL ==
    <<")">>
\* '\n\n---\nData Summary: '
SUMMARY_HEAD ==
    <<"\n","\n","-","-","-","\n","D","a","t","a"," ","S","u","m","m","a","r","y",":"," ">>
\* ' rows analyzed'
SUMMARY_TAIL ==
    <<" ","r","o","w","s"," ","a","n","a","l","y","z","e","d">>
\* 'drop'
KW_DROP ==
    <<"d","r","o","p">>
\* 'delete'
KW_DELETE ==
    <<"d","e","l","e","t","e">>
\* 'truncate'
KW_TRUNCATE ==
    <<"t","r","u","n","c","a","t","e">>
\* 'insert'
KW_INSERT ==
    <<"i","n","s","e","r","t">>
\* 'update'
KW_UPDATE ==
    <<"u","p","d","a","t","e">>
\* 'alter'
KW_ALTER ==
    <<"a","l","t","e","r">>
\* 'create'
KW_CREATE ==
    <<"c","r","e","a","t","e">>
\* 'permission'
TERM_PERMISSION ==
    <<"p","e","r","m","i","s","s","i","o","n">>
\* 'authentication'
TERM_AUTHENTICATION ==
    <<"a","u","t","h","e","n","t","i","c","a","t","i","o","n">>
\* 'credentials'
TERM_CREDENTIALS ==
    <<"c","r","e","d","e","n","t","i","a","l","s">>
\* 'quota'
TERM_QUOTA ==
    <<"q","u","o","t","a">>
\* 'Agent execution error: '
AGENT_ERROR_PREFIX ==
    <<"A","g","e","n","t"," ","e","x","e","c","u","t","i","o","n"," ","e","r","r","o","r",":"," ">>
\* "unsupported operand type(s) for +=: 'NoneType' and 'str'"
TYPE_ERROR ==
    <<"u","n","s","u","p","p","o","r","t","e","d"," ","o","p","e","r","a","n","d"," ","t","y","p",
      "e","(","s",")"," ","f","o","r"," ","+","=",":"," ","'","N","o","n","e","T","y","p","e","'",
      " ","a","n","d"," ","'","s","t","r","'">>
\* '1 validation error for AIMessage'
VALIDATION_ERROR ==
    <<"1"," ","v","a","l","i","d","a","t","i","o","n"," ","e","r","r","o","r"," ","f","o","r"," ",
      "A","I","M","e","s","s","a","g","e">>
\* 'exceptions must derive from BaseException'
RAISE_NONE_ERROR ==
    <<"e","x","c","e","p","t","i","o","n","s"," ","m","u","s","t"," ","d","e","r","i","v","e"," ",
      "f","r","o","m"," ","B","a","s","e","E","x","c","e","p","t","i","o","n">>
\* 'SELECT 1'
ReplyFirst ==
    <<"S","E","L","E","C","T"," ","1">>
\* 'SELECT 2'
ReplySecond ==
    <<"S","E","L","E","C","T"," ","2">>
\* 'An error occurred: '
ERROR_OCCURRED_PREFIX ==
    <<"A","n"," ","e","r","r","o","r"," ","o","c","c","u","r","r","e","d",":"," ">>
\* "I couldn't process your request. Please try again."
NO_RESPONSE_TEXT ==
    <<"I"," ","c","o","u","l","d","n","'","t"," ","p","r","o","c","e","s","s"," ","y","o","u","r",
      " ","r","e","q","u","e","s","t","."," ","P","l","e","a","s","e"," ","t","r","y"," ","a","g",
      "a","i","n",".">>

\* AnalysisType.all_types()
all_types ==
    <<CUSTOMER_SEGMENTATION, PRODUCT_PERFORMANCE, SALES_TRENDS, GEOGRAPHIC_PATTERNS, GENERAL_QUERY>>

\* dangerous_keywords of validate_sql_query
dangerous_keywords == <<KW_DROP, KW_DELETE, KW_TRUNCATE, KW_INSERT, KW_UPDATE, KW_ALTER, KW_CREATE>>

\* non_retryable of should_retry_query
non_retryable == <<TERM_PERMISSION, TERM_AUTHENTICATION, TERM_CREDENTIALS, TERM_QUOTA>>

\* max_retries of should_retry_query
max_retries == 2

\* tables of get_all_table_schemas
tables == <<"orders", "order_items", "products", "users">>

----------------------------------------------------------------------------
\* Inputs: what the user, the generation backend, the catalog and the
\* executor can hand to the workflow

\* 'top products'
UserQuery1 ==
    <<"t","o","p"," ","p","r","o","d","u","c","t","s">>
\* ' Product_Performance\n'
IntentRaw ==
    <<" ","P","r","o","d","u","c","t","_","P","e","r","f","o","r","m","a","n","c","e","\n">>
\* 'It is sales_trends'
IntentVerbose ==
    <<"I","t"," ","i","s"," ","s","a","l","e","s","_","t","r","e","n","d","s">>
\* '503 unavailable'
BackendDown ==
    <<"5","0","3"," ","u","n","a","v","a","i","l","a","b","l","e">>
\* '429 quota exceeded'
BackendQuota ==
    <<"4","2","9"," ","q","u","o","t","a"," ","e","x","c","e","e","d","e","d">>
\* 'Rate Limit reached'
BackendRateLimit ==
    <<"R","a","t","e"," ","L","i","m","i","t"," ","r","e","a","c","h","e","d">>
\* 'rate limit'
RATE_LIMIT_MARK ==
    <<"r","a","t","e"," ","l","i","m","i","t">>
\* 'quota'
QUOTA_MARK ==
    <<"q","u","o","t","a">>
\* '429'
HTTP_429_MARK ==
    <<"4","2","9">>
\* 'SELECT * FROM t'
SqlPlain ==
    <<"S","E","L","E","C","T"," ","*"," ","F","R","O","M"," ","t">>
\* '<backtick><backtick><backtick>sql\nSELECT * FROM t\n<backtick><backtick><backtick>'
SqlTagged ==
    <<Backtick,Backtick,Backtick,"s","q","l","\n","S","E","L","E","C","T"," ","*"," ","F","R","O",
      "M"," ","t","\n",Backtick,Backtick,Backtick>>
\* '<backtick><backtick><backtick>\nSELECT * FROM t\n<backtick><backtick><backtick>'
SqlBare ==
    <<Backtick,Backtick,Backtick,"\n","S","E","L","E","C","T"," ","*"," ","F","R","O","M"," ","t",
      "\n",Backtick,Backtick,Backtick>>
\* 'DROP TABLE t'
SqlDrop ==
    <<"D","R","O","P"," ","T","A","B","L","E"," ","t">>
\* 'SELECT * FROM t WHERE (a=1'
SqlUnbalanced ==
    <<"S","E","L","E","C","T"," ","*"," ","F","R","O","M"," ","t"," ","W","H","E","R","E"," ","(",
      "a","=","1">>
\* ''
SqlEmpty ==
    <<>>
\* 'Syntax error'
ErrSyntax ==
    <<"S","y","n","t","a","x"," ","e","r","r","o","r">>
\* 'Permission denied accessing dataset'
ErrPermission ==
    <<"P","e","r","m","i","s","s","i","o","n"," ","d","e","n","i","e","d"," ","a","c","c","e","s",
      "s","i","n","g"," ","d","a","t","a","s","e","t">>
\* 'QUOTA exceeded'
ErrQuota ==
    <<"Q","U","O","T","A"," ","e","x","c","e","e","d","e","d">>
\* 'Invalid Credentials'
ErrCredentials ==
    <<"I","n","v","a","l","i","d"," ","C","r","e","d","e","n","t","i","a","l","s">>
\* 'authentication failed'
ErrAuthentication ==
    <<"a","u","t","h","e","n","t","i","c","a","t","i","o","n"," ","f","a","i","l","e","d">>
\* 'Product A leads'
InsightText ==
    <<"P","r","o","d","u","c","t"," ","A"," ","l","e","a","d","s">>
\* ' \n': a response of blanks only
InsightBlank ==
    <<" ","\n">>
\* 'product'
ColProduct ==
    <<"p","r","o","d","u","c","t">>
\* 'revenue'
ColRevenue ==
    <<"r","e","v","e","n","u","e">>

UserQueries == {UserQuery1}

\* an outcome of llm.invoke: a response text, or an exception with its str()
Reply(text) == [ok |-> TRUE, text |-> text]

Failure(text) == [ok |-> FALSE, text |-> text]

BackendFailures == {Failure(BackendDown), Failure(BackendQuota)}

IntentOutcomes == {Reply(IntentRaw), Reply(IntentVerbose)} \cup BackendFailures

SqlOutcomes ==
    {Reply(SqlPlain), Reply(SqlTagged), Reply(SqlBare), Reply(SqlDrop), Reply(SqlUnbalanced),
     Reply(SqlEmpty)} \cup BackendFailures

InsightOutcomes == {Reply(InsightText), Reply(InsightBlank)} \cup BackendFailures

\* error texts of the warehouse
ExecErrors == {ErrSyntax, ErrPermission, ErrQuota, ErrCredentials, ErrAuthentication}

\* a pandas DataFrame: its column names and its number of rows
DataFrame(n) == [columns |-> <<ColProduct, ColRevenue>>, nrows |-> n]

\* the schema the catalog holds for each table
Catalog == [t \in Range(tables) |-> <<[name |-> "id", type |-> "INTEGER", description |-> t]>>]

\* the module-level client: absent until initialize_bigquery_client has run
TheClient == [dataset_id |-> "bigquery-public-data.thelook_ecommerce"]

Clients == {None, Some(TheClient)}

\* outcomes of client.get_table_schema over the four tables: the tables whose call fails
SchemaFailures == {{}, {"products"}, Range(tables)}

----------------------------------------------------------------------------
\* tools/bigquery_tools.py

\* BigQueryRunner(project_id=..., dataset_id=...): the client holds its arguments
BigQueryRunner(project_id, dataset_id) == [project_id |-> project_id, dataset_id |-> dataset_id]

\* initialize_bigquery_client building a client on every call
initialize_bigquery_client_rebuilds(client, project_id, dataset_id, constructed) ==
    IF constructed.ok
    THEN [_bq_client |-> Some(BigQueryRunner(project_id, dataset_id)),
          ret |-> [ok |-> TRUE, client |-> BigQueryRunner(project_id, dataset_id)]]
    ELSE [_bq_client |-> client, ret |-> constructed]

\* initialize_bigquery_client on the global client: constructed is the outcome
\* of the constructor, called only while there is no client; the result is
\* the global afterwards and what the call returns or raises
initialize_bigquery_client(client, project_id, dataset_id, constructed) ==
    IF client = None
    THEN IF constructed.ok
         THEN [_bq_client |-> Some(BigQueryRunner(project_id, dataset_id)),
               ret |-> [ok |-> TRUE, client |-> BigQueryRunner(project_id, dataset_id)]]
         ELSE [_bq_client |-> None, ret |-> constructed]
    ELSE [_bq_client |-> client, ret |-> [ok |-> TRUE, client |-> Val(client)]]

\* get_bigquery_client: the client, or RuntimeError when none was initialized
get_bigquery_client(client) ==
    IF client = None THEN Failure(CLIENT_NOT_INITIALIZED) ELSE [ok |-> TRUE, client |-> Val(client)]

\* get_all_table_schemas giving up at the first table whose call fails
get_all_table_schemas_stops_at_failure(client, failed) ==
    IF ~get_bigquery_client(client).ok THEN get_bigquery_client(client)
    ELSE LET bad == {i \in 1..Len(tables) : tables[i] \in failed}
             fetched == {tables[i] : i \in {j \in 1..Len(tables) : \A k \in bad : j < k}}
         IN  [ok |-> TRUE,
              schemas |-> [t \in fetched \cup failed |-> IF t \in failed THEN <<>> ELSE Catalog[t]]]

\* get_all_table_schemas: a failing table degrades to an empty field list
get_all_table_schemas(client, failed) ==
    IF ~get_bigquery_client(client).ok THEN get_bigquery_client(client)
    ELSE [ok |-> TRUE,
          schemas |-> [t \in Range(tables) |-> IF t \in failed THEN <<>> ELSE Catalog[t]]]

\* execute_query_direct: what the executor can answer for one query
execute_query_direct(client) ==
    IF ~get_bigquery_client(client).ok THEN {get_bigquery_client(client)}
    ELSE {[ok |-> TRUE, df |-> DataFrame(n)] : n \in 0..MaxRows}
         \cup {Failure(e) : e \in ExecErrors}

\* validate_sql_query looking for the keywords anywhere in the text
validate_sql_query_substring(sql_query) ==
    LET sql_lower == Strip(Lower(sql_query))
        found == {i \in 1..Len(dangerous_keywords) : IsSubstring(dangerous_keywords[i], sql_lower)}
    IN  IF found # {}
        THEN [valid |-> FALSE,
              reason |-> Some(DANGEROUS_REASON_PREFIX \o dangerous_keywords[SetMin(found)]
                              \o DANGEROUS_REASON_SUFFIX)]
        ELSE IF ~StartsWith(sql_lower, SELECT_KW)
        THEN [valid |-> FALSE, reason |-> Some(NOT_SELECT_REASON)]
        ELSE IF Count(sql_lower, "(") # Count(sql_lower, ")")
        THEN [valid |-> FALSE, reason |-> Some(UNBALANCED_REASON)]
        ELSE [valid |-> TRUE, reason |-> None]

\* validate_sql_query testing for SELECT before the keywords
validate_sql_query_select_first(sql_query) ==
    LET sql_lower == Strip(Lower(sql_query))
        words == Range(Split(sql_lower))
        found == {i \in 1..Len(dangerous_keywords) : dangerous_keywords[i] \in words}
    IN  IF ~StartsWith(sql_lower, SELECT_KW)
        THEN [valid |-> FALSE, reason |-> Some(NOT_SELECT_REASON)]
        ELSE IF found # {}
        THEN [valid |-> FALSE,
              reason |-> Some(DANGEROUS_REASON_PREFIX \o dangerous_keywords[SetMin(found)]
                              \o DANGEROUS_REASON_SUFFIX)]
        ELSE IF Count(sql_lower, "(") # Count(sql_lower, ")")
        THEN [valid |-> FALSE, reason |-> Some(UNBALANCED_REASON)]
        ELSE [valid |-> TRUE, reason |-> None]

validate_sql_query(sql_query) ==
    LET sql_lower == Strip(Lower(sql_query))
        words == Range(Split(sql_lower))
        found == {i \in 1..Len(dangerous_keywords) : dangerous_keywords[i] \in words}
    IN  IF found # {}
        THEN [valid |-> FALSE,
              reason |-> Some(DANGEROUS_REASON_PREFIX \o dangerous_keywords[SetMin(found)]
                              \o DANGEROUS_REASON_SUFFIX)]
        ELSE IF ~StartsWith(sql_lower, SELECT_KW)
        THEN [valid |-> FALSE, reason |-> Some(NOT_SELECT_REASON)]
        ELSE IF Count(sql_lower, "(") # Count(sql_lower, ")")
        THEN [valid |-> FALSE, reason |-> Some(UNBALANCED_REASON)]
        ELSE [valid |-> TRUE, reason |-> None]

----------------------------------------------------------------------------
\* llm/gemini_client.py

\* GeminiClient.__init__: max_retries is 3 unless the caller gives it
default_max_retries == 3

GeminiClient(retries) ==
    [max_retries |-> IF retries = None THEN default_max_retries ELSE Val(retries)]

\* the test of invoke_with_retry for a rate limit error, on str(e).lower()
is_rate_limit(error_msg) ==
    \/ IsSubstring(RATE_LIMIT_MARK, error_msg)
    \/ IsSubstring(QUOTA_MARK, error_msg)
    \/ IsSubstring(HTTP_429_MARK, error_msg)

\* the calls of time.sleep in the except block of iteration attempt, in
\* milliseconds
sleeps_after(e, attempts, attempt) ==
    IF is_rate_limit(Lower(e))
    THEN <<[attempt |-> attempt, ms |-> (2 ^ attempt) * 1000]>>
    ELSE IF attempt < attempts - 1
    THEN <<[attempt |-> attempt, ms |-> 500]>>
    ELSE <<>>

\* the retry loop keeping the first failure instead of the last
RECURSIVE retry_loop_keeps_first(_, _, _, _)
retry_loop_keeps_first(backend, attempts, attempt, last_error) ==
    IF attempt >= attempts
    THEN [calls |-> attempt,
          result |-> IF last_error = None THEN Failure(RAISE_NONE_ERROR)
                     ELSE Failure(Val(last_error)),
          sleeps |-> <<>>]
    ELSE IF backend[attempt + 1].ok
    THEN [calls |-> attempt + 1, result |-> backend[attempt + 1], sleeps |-> <<>>]
    ELSE LET rest == retry_loop_keeps_first(backend, attempts, attempt + 1,
                                            IF last_error = None
                                            THEN Some(backend[attempt + 1].text)
                                            ELSE last_error)
         IN  [rest EXCEPT !.sleeps = sleeps_after(backend[attempt + 1].text, attempts, attempt) \o @]

\* the loop of invoke_with_retry from iteration attempt on: backend[i] is the
\* outcome of the i-th call of the backend; the result is the response returned
\* or the exception raised, with the number of calls made and the calls of
\* time.sleep in their order
RECURSIVE retry_loop(_, _, _, _)
retry_loop(backend, attempts, attempt, last_error) ==
    IF attempt >= attempts
    THEN [calls |-> attempt,
          result |-> IF last_error = None THEN Failure(RAISE_NONE_ERROR)
                     ELSE Failure(Val(last_error)),
          sleeps |-> <<>>]
    ELSE IF backend[attempt + 1].ok
    THEN [calls |-> attempt + 1, result |-> backend[attempt + 1], sleeps |-> <<>>]
    ELSE LET rest == retry_loop(backend, attempts, attempt + 1,
                                Some(backend[attempt + 1].text))
         IN  [rest EXCEPT !.sleeps = sleeps_after(backend[attempt + 1].text, attempts, attempt) \o @]

invoke_with_retry(self, backend, max_attempts) ==
    LET attempts == IF max_attempts # None /\ Val(max_attempts) # 0
                    THEN Val(max_attempts) ELSE self.max_retries
    IN  retry_loop(backend, attempts, 0, None)

----------------------------------------------------------------------------
\* agent/state.py and the graph engine's merge of a node's partial update

initial_state(user_query) ==
    [messages |-> <<>>, user_query |-> user_query, analysis_type |-> None, sql_query |-> None,
     query_results |-> None, insights |-> None, error |-> None, retry_count |-> 0,
     schema_context |-> None]

\* a merge that takes the update as the whole new state: fields the update does
\* not mention fall back to their initial values
Merge_replaces_state(s, update) ==
    [k \in DOMAIN s |->
        IF k = "user_query" THEN s[k]
        ELSE IF k \notin DOMAIN update THEN initial_state(s.user_query)[k]
        ELSE IF k = "messages" THEN s[k] \o update[k]
        ELSE update[k]]

\* fields of the update replace the state's, except messages, which accumulates
Merge(s, update) ==
    [k \in DOMAIN s |->
        IF k \notin DOMAIN update THEN s[k]
        ELSE IF k = "messages" THEN s[k] \o update[k]
        ELSE update[k]]

----------------------------------------------------------------------------
\* agent/nodes.py

\* analyze_request_node reporting a backend failure without a default type
analyze_request_node_error_only(s, llm) ==
    IF llm.ok
    THEN LET analysis_type == Lower(Strip(llm.text))
         IN  [analysis_type |-> Some(IF analysis_type \in Range(all_types)
                                     THEN analysis_type ELSE GENERAL_QUERY),
              error |-> None]
    ELSE [error |-> Some(INTENT_ERROR_PREFIX \o llm.text)]

analyze_request_node(s, llm) ==
    IF llm.ok
    THEN LET analysis_type == Lower(Strip(llm.text))
         IN  [analysis_type |-> Some(IF analysis_type \in Range(all_types)
                                     THEN analysis_type ELSE GENERAL_QUERY),
              error |-> None]
    ELSE [analysis_type |-> Some(GENERAL_QUERY), error |-> Some(INTENT_ERROR_PREFIX \o llm.text)]

\* sql_prompt choosing the recovery prompt on any error, failed query or not
sql_prompt_error_only(s) ==
    IF Truthy(s.error)
    THEN [kind |-> "recovery", error_message |-> s.error, failed_query |-> s.sql_query]
    ELSE [kind |-> "normal", error_message |-> None, failed_query |-> None]

\* the prompt generate_sql_node renders: recovery after a failed query, else normal
sql_prompt(s) ==
    LET failed_query == IF Truthy(s.error) THEN s.sql_query ELSE None
        error_message == IF Truthy(failed_query) THEN s.error ELSE None
    IN  IF Truthy(failed_query) /\ Truthy(error_message)
        THEN [kind |-> "recovery", error_message |-> error_message, failed_query |-> failed_query]
        ELSE [kind |-> "normal", error_message |-> None, failed_query |-> None]

\* the markdown clean-up of the generated text
clean_sql(content) ==
    LET sql_query == Strip(content)
    IN  IF StartsWith(sql_query, FENCE_SQL)
        THEN Strip(Replace(Replace(sql_query, FENCE_SQL, <<>>), FENCE, <<>>))
        ELSE IF StartsWith(sql_query, FENCE)
        THEN Strip(Replace(sql_query, FENCE, <<>>))
        ELSE sql_query

\* generate_sql_node keeping the previous sql_query when the backend fails
generate_sql_node_keeps_query(s, schema, llm) ==
    IF s.schema_context = None /\ ~schema.ok
    THEN [error |-> Some(SCHEMA_ERROR_PREFIX \o schema.text), sql_query |-> None]
    ELSE IF ~llm.ok
    THEN [error |-> Some(SQL_GEN_ERROR_PREFIX \o llm.text)]
    ELSE LET schema_context ==
                 IF s.schema_context = None THEN Some(schema.schemas) ELSE s.schema_context
             sql_query == clean_sql(llm.text)
             checked == validate_sql_query(sql_query)
         IN  IF ~checked.valid
             THEN [error |-> Some(INVALID_SQL_PREFIX \o Val(checked.reason)),
                   sql_query |-> Some(sql_query)]
             ELSE [sql_query |-> Some(sql_query), schema_context |-> schema_context,
                   error |-> None]

\* generate_sql_node starting the retry count afresh with each accepted query
generate_sql_node_resets_retry(s, schema, llm) ==
    IF s.schema_context = None /\ ~schema.ok
    THEN [error |-> Some(SCHEMA_ERROR_PREFIX \o schema.text), sql_query |-> None]
    ELSE IF ~llm.ok
    THEN [error |-> Some(SQL_GEN_ERROR_PREFIX \o llm.text), sql_query |-> None]
    ELSE LET schema_context ==
                 IF s.schema_context = None THEN Some(schema.schemas) ELSE s.schema_context
             sql_query == clean_sql(llm.text)
             checked == validate_sql_query(sql_query)
         IN  IF ~checked.valid
             THEN [error |-> Some(INVALID_SQL_PREFIX \o Val(checked.reason)),
                   sql_query |-> Some(sql_query)]
             ELSE [sql_query |-> Some(sql_query), schema_context |-> schema_context,
                   error |-> None, retry_count |-> 0]

\* generate_sql_node leaving an earlier error in place when it succeeds
generate_sql_node_keeps_error(s, schema, llm) ==
    IF s.schema_context = None /\ ~schema.ok
    THEN [error |-> Some(SCHEMA_ERROR_PREFIX \o schema.text), sql_query |-> None]
    ELSE IF ~llm.ok
    THEN [error |-> Some(SQL_GEN_ERROR_PREFIX \o llm.text), sql_query |-> None]
    ELSE LET schema_context ==
                 IF s.schema_context = None THEN Some(schema.schemas) ELSE s.schema_context
             sql_query == clean_sql(llm.text)
             checked == validate_sql_query(sql_query)
         IN  IF ~checked.valid
             THEN [error |-> Some(INVALID_SQL_PREFIX \o Val(checked.reason)),
                   sql_query |-> Some(sql_query)]
             ELSE [sql_query |-> Some(sql_query), schema_context |-> schema_context]

\* schema is the outcome of get_all_table_schemas, llm the outcome of llm.invoke
generate_sql_node(s, schema, llm) ==
    IF s.schema_context = None /\ ~schema.ok
    THEN [error |-> Some(SCHEMA_ERROR_PREFIX \o schema.text), sql_query |-> None]
    ELSE IF ~llm.ok
    THEN [error |-> Some(SQL_GEN_ERROR_PREFIX \o llm.text), sql_query |-> None]
    ELSE LET schema_context ==
                 IF s.schema_context = None THEN Some(schema.schemas) ELSE s.schema_context
             sql_query == clean_sql(llm.text)
             checked == validate_sql_query(sql_query)
         IN  IF ~checked.valid
             THEN [error |-> Some(INVALID_SQL_PREFIX \o Val(checked.reason)),
                   sql_query |-> Some(sql_query)]
             ELSE [sql_query |-> Some(sql_query), schema_context |-> schema_context,
                   error |-> None]

\* execute_query_node leaving retry_count alone when the executor fails
execute_query_node_no_increment(s, result) ==
    IF ~Truthy(s.sql_query)
    THEN [error |-> Some(NO_SQL_ERROR), query_results |-> None]
    ELSE IF result.ok
    THEN [query_results |-> Some(result.df), error |-> None, retry_count |-> 0]
    ELSE [error |-> Some(EXEC_ERROR_PREFIX \o result.text), query_results |-> None]

\* execute_query_node counting the missing query as a failed attempt
execute_query_node_counts_no_query(s, result) ==
    IF ~Truthy(s.sql_query)
    THEN [error |-> Some(NO_SQL_ERROR), query_results |-> None,
          retry_count |-> s.retry_count + 1]
    ELSE IF result.ok
    THEN [query_results |-> Some(result.df), error |-> None, retry_count |-> 0]
    ELSE [error |-> Some(EXEC_ERROR_PREFIX \o result.text), query_results |-> None,
          retry_count |-> s.retry_count + 1]

\* execute_query_node leaving an earlier error in place when the executor succeeds
execute_query_node_keeps_error(s, result) ==
    IF ~Truthy(s.sql_query)
    THEN [error |-> Some(NO_SQL_ERROR), query_results |-> None]
    ELSE IF result.ok
    THEN [query_results |-> Some(result.df), retry_count |-> 0]
    ELSE [error |-> Some(EXEC_ERROR_PREFIX \o result.text), query_results |-> None,
          retry_count |-> s.retry_count + 1]

\* execute_query_node leaving retry_count alone when the executor succeeds
execute_query_node_no_reset(s, result) ==
    IF ~Truthy(s.sql_query)
    THEN [error |-> Some(NO_SQL_ERROR), query_results |-> None]
    ELSE IF result.ok
    THEN [query_results |-> Some(result.df), error |-> None]
    ELSE [error |-> Some(EXEC_ERROR_PREFIX \o result.text), query_results |-> None,
          retry_count |-> s.retry_count + 1]

\* result is the outcome of execute_query_direct; it is not consulted without a query
execute_query_node(s, result) ==
    IF ~Truthy(s.sql_query)
    THEN [error |-> Some(NO_SQL_ERROR), query_results |-> None]
    ELSE IF result.ok
    THEN [query_results |-> Some(result.df), error |-> None, retry_count |-> 0]
    ELSE [error |-> Some(EXEC_ERROR_PREFIX \o result.text), query_results |-> None,
          retry_count |-> s.retry_count + 1]

\* the templated insight naming the row count only
fallback_insights_without_columns(df) ==
    FALLBACK_HEAD \o Str(df.nrows) \o FALLBACK_ROWS \o FALLBACK_TAIL

\* the templated insight of analyze_results_node when the backend fails
fallback_insights(df) ==
    FALLBACK_HEAD \o Str(df.nrows) \o FALLBACK_ROWS
    \o FALLBACK_COLUMNS \o Join(FALLBACK_SEP, df.columns) \o FALLBACK_DOT
    \o FALLBACK_TAIL

\* DataFrame.empty
empty(df) == df.nrows = 0 \/ df.columns = <<>>

\* analyze_results_node also posting its insights to the conversation
analyze_results_node_posts_message(s, llm) ==
    IF s.query_results = None \/ empty(Val(s.query_results))
    THEN [insights |-> Some(NO_DATA_INSIGHTS), error |-> None,
          messages |-> <<[type |-> "ai", content |-> NO_DATA_INSIGHTS]>>]
    ELSE IF llm.ok
    THEN [insights |-> Some(Strip(llm.text)), error |-> None,
          messages |-> <<[type |-> "ai", content |-> Strip(llm.text)]>>]
    ELSE [insights |-> Some(fallback_insights(Val(s.query_results))),
          error |-> Some(INSIGHT_ERROR_PREFIX \o llm.text)]

\* analyze_results_node treating an empty result set like any other
analyze_results_node_without_empty_check(s, llm) ==
    IF s.query_results = None
    THEN [insights |-> Some(NO_DATA_INSIGHTS), error |-> None]
    ELSE IF llm.ok
    THEN [insights |-> Some(Strip(llm.text)), error |-> None]
    ELSE [insights |-> Some(fallback_insights(Val(s.query_results))),
          error |-> Some(INSIGHT_ERROR_PREFIX \o llm.text)]

\* analyze_results_node returning nothing when the backend fails
analyze_results_node_swallows_failure(s, llm) ==
    IF s.query_results = None \/ empty(Val(s.query_results))
    THEN [insights |-> Some(NO_DATA_INSIGHTS), error |-> None]
    ELSE IF llm.ok
    THEN [insights |-> Some(Strip(llm.text)), error |-> None]
    ELSE [insights |-> None, error |-> None]

analyze_results_node(s, llm) ==
    IF s.query_results = None \/ empty(Val(s.query_results))
    THEN [insights |-> Some(NO_DATA_INSIGHTS), error |-> None]
    ELSE IF llm.ok
    THEN [insights |-> Some(Strip(llm.text)), error |-> None]
    ELSE [insights |-> Some(fallback_insights(Val(s.query_results))),
          error |-> Some(INSIGHT_ERROR_PREFIX \o llm.text)]

\* response_content leaving the minor-issue note out of a partial success
response_content_without_note(s) ==
    LET body == IF Truthy(s.error) /\ ~Truthy(s.insights)
                THEN Some(APOLOGY_HEAD \o Val(s.error) \o APOLOGY_GAP \o APOLOGY_TAIL)
                ELSE s.insights
    IN  IF body = None THEN None
        ELSE IF s.query_results # None /\ ~empty(Val(s.query_results))
        THEN Some(Val(body) \o SUMMARY_HEAD \o Str(Val(s.query_results).nrows) \o SUMMARY_TAIL)
        ELSE body

\* response_content appending the data summary only when no error is set
response_content_summary_without_error(s) ==
    LET body == IF Truthy(s.error) /\ ~Truthy(s.insights)
                THEN Some(APOLOGY_HEAD \o Val(s.error) \o APOLOGY_GAP \o APOLOGY_TAIL)
                ELSE IF Truthy(s.error) /\ Truthy(s.insights)
                THEN Some(Val(s.insights) \o NOTE_HEAD \o Val(s.error) \o NOTE_TAIL)
                ELSE s.insights
    IN  IF body = None THEN None
        ELSE IF s.query_results # None /\ ~empty(Val(s.query_results)) /\ ~Truthy(s.error)
        THEN Some(Val(body) \o SUMMARY_HEAD \o Str(Val(s.query_results).nrows) \o SUMMARY_TAIL)
        ELSE body

\* the content of the message respond_node builds; None when the insights it
\* would send are None, which the message constructor rejects
response_content(s) ==
    LET insights == s.insights
        error == s.error
        query_results == s.query_results
        body == IF Truthy(error) /\ ~Truthy(insights)
                THEN Some(APOLOGY_HEAD \o Val(error) \o APOLOGY_GAP \o APOLOGY_TAIL)
                ELSE IF Truthy(error) /\ Truthy(insights)
                THEN Some(Val(insights) \o NOTE_HEAD \o Val(error) \o NOTE_TAIL)
                ELSE insights
    IN  IF body = None THEN None
        ELSE IF query_results # None /\ ~empty(Val(query_results))
        THEN Some(Val(body) \o SUMMARY_HEAD \o Str(Val(query_results).nrows) \o SUMMARY_TAIL)
        ELSE body

respond_node(s) == [messages |-> <<[type |-> "ai", content |-> Val(response_content(s))]>>]

\* should_retry_query matching the denylist against the error as written
should_retry_query_case_sensitive(s) ==
    IF Truthy(s.error) /\ s.retry_count < max_retries
    THEN ~\E i \in 1..Len(non_retryable) : IsSubstring(non_retryable[i], Val(s.error))
    ELSE FALSE

\* should_retry_query with a larger retry limit
should_retry_query_limit_4(s) ==
    IF Truthy(s.error) /\ s.retry_count < 4
    THEN ~\E i \in 1..Len(non_retryable) : IsSubstring(non_retryable[i], Lower(Val(s.error)))
    ELSE FALSE

\* should_retry_query comparing retry_count with <=
should_retry_query_inclusive(s) ==
    IF Truthy(s.error) /\ s.retry_count <= max_retries
    THEN ~\E i \in 1..Len(non_retryable) : IsSubstring(non_retryable[i], Lower(Val(s.error)))
    ELSE FALSE

should_retry_query(s) ==
    LET error == s.error
        retry_count == s.retry_count
    IN  IF Truthy(error) /\ retry_count < max_retries
        THEN LET error_lower == Lower(Val(error))
             IN  IF \E i \in 1..Len(non_retryable) : IsSubstring(non_retryable[i], error_lower)
                 THEN FALSE
                 ELSE TRUE
        ELSE FALSE

----------------------------------------------------------------------------
\* agent/graph.py

\* route_after_execution looking at the results before the retry decision
route_after_execution_results_first(s) ==
    IF s.query_results # None THEN "analyze_results"
    ELSE IF Truthy(s.error) /\ should_retry_query(s) THEN "generate_sql"
    ELSE IF Truthy(s.error) THEN "respond"
    ELSE "analyze_results"

route_after_execution(s) ==
    LET error == s.error
        query_results == s.query_results
    IN  IF Truthy(error) /\ should_retry_query(s) THEN "generate_sql"
        ELSE IF query_results # None THEN "analyze_results"
        ELSE IF Truthy(error) THEN "respond"
        ELSE "analyze_results"

\* run_analysis building the failure state from the state the run had reached
failed_run_from_current(user_query, text) ==
    [state EXCEPT !.error = Some(AGENT_ERROR_PREFIX \o text), !.messages = <<>>]

\* the state run_analysis returns when graph.invoke raises
failed_run(user_query, text) ==
    [initial_state(user_query) EXCEPT !.error = Some(AGENT_ERROR_PREFIX \o text)]

\* get_response_from_state without the fallback for an empty conversation
get_response_from_state_no_fallback(s) ==
    IF s.messages # <<>> THEN s.messages[Len(s.messages)].content
    ELSE <<>>

\* every message of the conversation has a content attribute
get_response_from_state(s) ==
    IF s.messages # <<>> THEN s.messages[Len(s.messages)].content
    ELSE IF Truthy(s.error) THEN ERROR_OCCURRED_PREFIX \o Val(s.error)
    ELSE NO_RESPONSE_TEXT

----------------------------------------------------------------------------
\* The run of the compiled graph on one user query (run_analysis)

NoPrompt == [kind |-> "none", error_message |-> None, failed_query |-> None]

\* no function is being called directly
NoCall == [fn |-> "none", arg |-> None, ret |-> None]

Bump(n) == IF n < MaxCount THEN n + 1 ELSE n

Log(entry) == IF Len(exec_log) < MaxLog THEN Append(exec_log, entry) ELSE exec_log

Init ==
    /\ pc = "analyze_request"
    /\ \E q \in UserQueries : state = initial_state(q)
    /\ bq_client \in Clients
    /\ n_generate = 0
    /\ n_fetch = 0
    /\ n_exec = 0
    /\ n_analyze = 0
    /\ exec_log = <<>>
    /\ prompt = NoPrompt
    /\ probe = NoCall

AnalyzeRequest ==
    /\ pc = "analyze_request"
    /\ \E llm \in IntentOutcomes : state' = Merge(state, analyze_request_node(state, llm))
    /\ prompt' = [kind |-> "intent", error_message |-> None, failed_query |-> None]
    /\ pc' = "generate_sql"
    /\ UNCHANGED <<bq_client, n_generate, n_fetch, n_exec, n_analyze, exec_log, probe>>

GenerateSql ==
    /\ pc = "generate_sql"
    /\ \E failed \in SchemaFailures, llm \in SqlOutcomes :
          LET schema == get_all_table_schemas(bq_client, failed)
          IN  /\ state' = Merge(state, generate_sql_node(state, schema, llm))
              /\ prompt' = IF state.schema_context = None /\ ~schema.ok
                           THEN prompt ELSE sql_prompt(state)
    /\ n_fetch' = IF state.schema_context = None THEN Bump(n_fetch) ELSE n_fetch
    /\ n_generate' = Bump(n_generate)
    /\ pc' = "execute_query"
    /\ UNCHANGED <<bq_client, n_exec, n_analyze, exec_log, probe>>

ExecuteQuery ==
    /\ pc = "execute_query"
    /\ IF ~Truthy(state.sql_query)
       THEN /\ state' = Merge(state, execute_query_node(state, Failure(<<>>)))
            /\ exec_log' = Log([called |-> FALSE, sql |-> None, ok |-> FALSE, text |-> None,
                                retry_count |-> state'.retry_count])
            /\ n_exec' = n_exec
       ELSE \E result \in execute_query_direct(bq_client) :
               /\ state' = Merge(state, execute_query_node(state, result))
               /\ exec_log' = Log([called |-> TRUE, sql |-> state.sql_query, ok |-> result.ok,
                                   text |-> IF result.ok THEN None ELSE Some(result.text),
                                   retry_count |-> state'.retry_count])
               /\ n_exec' = Bump(n_exec)
    /\ pc' = "route_after_execution"
    /\ UNCHANGED <<bq_client, n_generate, n_fetch, n_analyze, prompt, probe>>

Route ==
    /\ pc = "route_after_execution"
    /\ pc' = route_after_execution(state)
    /\ UNCHANGED <<state, bq_client, n_generate, n_fetch, n_exec, n_analyze, exec_log, prompt, probe>>

\* the edge out of analyze_results wired to END instead of respond
AnalyzeResults_wired_to_end ==
    /\ pc = "analyze_results"
    /\ IF state.query_results = None \/ empty(Val(state.query_results))
       THEN /\ state' = Merge(state, analyze_results_node(state, Failure(<<>>)))
            /\ prompt' = prompt
       ELSE /\ \E llm \in InsightOutcomes :
                  state' = Merge(state, analyze_results_node(state, llm))
            /\ prompt' = [kind |-> "insight", error_message |-> None, failed_query |-> None]
    /\ n_analyze' = Bump(n_analyze)
    /\ pc' = "END"
    /\ UNCHANGED <<bq_client, n_generate, n_fetch, n_exec, exec_log, probe>>

AnalyzeResults ==
    /\ pc = "analyze_results"
    /\ IF state.query_results = None \/ empty(Val(state.query_results))
       THEN /\ state' = Merge(state, analyze_results_node(state, Failure(<<>>)))
            /\ prompt' = prompt
       ELSE /\ \E llm \in InsightOutcomes :
                  state' = Merge(state, analyze_results_node(state, llm))
            /\ prompt' = [kind |-> "insight", error_message |-> None, failed_query |-> None]
    /\ n_analyze' = Bump(n_analyze)
    /\ pc' = "respond"
    /\ UNCHANGED <<bq_client, n_generate, n_fetch, n_exec, exec_log, probe>>

Respond ==
    /\ pc = "respond"
    /\ IF response_content(state) = None
       THEN \E text \in {TYPE_ERROR, VALIDATION_ERROR} :
               state' = failed_run(state.user_query, text)
       ELSE state' = Merge(state, respond_node(state))
    /\ pc' = "END"
    /\ UNCHANGED <<bq_client, n_generate, n_fetch, n_exec, n_analyze, exec_log, prompt, probe>>

Next == AnalyzeRequest \/ GenerateSql \/ ExecuteQuery \/ Route \/ AnalyzeResults \/ Respond

Spec == Init /\ [][Next]_vars

\* the graph engine runs the next node as long as there is one
FairSpec == Spec /\ WF_vars(Next)

----------------------------------------------------------------------------
\* run_analysis and its caller: graph.invoke may raise at any node, and the
\* returned state is turned into the response text

\* str() of the exceptions graph.invoke raises
InvokeErrors == {TYPE_ERROR, VALIDATION_ERROR, <<>>}

\* graph.invoke raises while the run is at some node; run_analysis returns the
\* degraded state
InvokeRaises ==
    /\ pc \in {"analyze_request", "generate_sql", "execute_query", "route_after_execution",
               "analyze_results", "respond"}
    /\ \E text \in InvokeErrors :
          /\ state' = failed_run(state.user_query, text)
          /\ probe' = [fn |-> "graph.invoke", arg |-> None, ret |-> Some(text)]
    /\ pc' = "END"
    /\ UNCHANGED <<bq_client, n_generate, n_fetch, n_exec, n_analyze, exec_log, prompt>>

\* the caller extracts the response text from the state run_analysis returned
GetResponse ==
    /\ pc = "END"
    /\ probe' = [fn |-> "get_response_from_state", arg |-> None,
                 ret |-> Some(get_response_from_state(state))]
    /\ pc' = "response"
    /\ UNCHANGED <<state, bq_client, n_generate, n_fetch, n_exec, n_analyze, exec_log, prompt>>

RunNext == Next \/ InvokeRaises \/ GetResponse

RunSpec == Init /\ [][RunNext]_vars

----------------------------------------------------------------------------
\* main.py: the interactive loop around run_analysis

\* the words that end the loop
exit_commands ==
    {<<"e","x","i","t">>,
     <<"q","u","i","t">>,
     <<"b","y","e">>,
     <<"q">>}

\* the words that print the usage
help_commands ==
    {<<"h","e","l","p">>,
     <<"?">>}

\* blanks typed before the words
InputLeads ==
    {<<>>,
     <<" ">>}

\* what the user types
InputWords ==
    {<<"e","x","i","t">>,
     <<"E","X","I","T">>,
     <<"Q","u","i","t">>,
     <<"b","y","e">>,
     <<"q">>,
     <<"h","e","l","p">>,
     <<"H","E","L","P">>,
     <<"?">>,
     <<>>,
     <<"t","o","p"," ","p","r","o","d","u","c","t","s">>,
     <<"q","u","i","t"," ","n","o","w">>}

\* blanks typed after the words
InputTails ==
    {<<>>,
     <<" ","\t">>}

InputLines ==
    {lead \o words \o tail : lead \in InputLeads, words \in InputWords, tail \in InputTails}

\* exit and help words compared in upper and lower case alike
cli_command_case_sensitive(user_input) ==
    IF user_input \in exit_commands THEN "exit"
    ELSE IF user_input = <<>> THEN "skip"
    ELSE IF user_input \in help_commands THEN "help"
    ELSE "query"

\* what one iteration of the loop does with the trimmed input
cli_command(user_input) ==
    IF Lower(user_input) \in exit_commands THEN "exit"
    ELSE IF user_input = <<>> THEN "skip"
    ELSE IF Lower(user_input) \in help_commands THEN "help"
    ELSE "query"

\* no run is in progress: the loop waits for input, no state of a run is live
CliInit ==
    /\ pc = "input"
    /\ state = initial_state(<<>>)
    /\ bq_client = Some(TheClient)
    /\ n_generate = 0
    /\ n_fetch = 0
    /\ n_exec = 0
    /\ n_analyze = 0
    /\ exec_log = <<>>
    /\ prompt = NoPrompt
    /\ probe = NoCall

\* input("You: ")
ReadInput ==
    /\ pc = "input"
    /\ \E line \in InputLines : probe' = [fn |-> "input", arg |-> Some(line), ret |-> None]
    /\ pc' = "dispatch"
    /\ UNCHANGED <<state, bq_client, n_generate, n_fetch, n_exec, n_analyze, exec_log, prompt>>

\* the loop body up to the call of run_analysis; ret records what was printed
Dispatch ==
    /\ pc = "dispatch"
    /\ LET user_input == Strip(Val(probe.arg))
           command == cli_command(user_input)
       IN  /\ probe' = [probe EXCEPT !.ret = Some(command)]
           /\ pc' = IF command = "exit" THEN "exited"
                    ELSE IF command = "query" THEN "analyze_request"
                    ELSE "input"
           /\ state' = IF command = "query" THEN initial_state(user_input) ELSE state
    /\ UNCHANGED <<bq_client, n_generate, n_fetch, n_exec, n_analyze, exec_log, prompt>>

\* print_response; the state of the finished run is dropped
PrintResponse ==
    /\ pc = "response"
    /\ pc' = "input"
    /\ state' = initial_state(<<>>)
    /\ n_generate' = 0
    /\ n_fetch' = 0
    /\ n_exec' = 0
    /\ n_analyze' = 0
    /\ exec_log' = <<>>
    /\ prompt' = NoPrompt
    /\ probe' = NoCall
    /\ UNCHANGED bq_client

CliNext == ReadInput \/ Dispatch \/ RunNext \/ PrintResponse

CliSpec == CliInit /\ [][CliNext]_vars


----------------------------------------------------------------------------
\* The routing decision and the retry policy on arbitrary states

ProbeErrors ==
    {None, Some(NO_SQL_ERROR)}
    \cup {Some(e) : e \in ExecErrors}
    \cup {Some(EXEC_ERROR_PREFIX \o e) : e \in ExecErrors}

ProbeStates ==
    [messages : {<<>>},
     user_query : UserQueries,
     analysis_type : {None, Some(GENERAL_QUERY)},
     sql_query : {None, Some(SqlPlain)},
     query_results : {None, Some(DataFrame(0)), Some(DataFrame(1))},
     insights : {None, Some(InsightText)},
     error : ProbeErrors,
     retry_count : 0..MaxProbeRetry,
     schema_context : {None}]

RouteInit ==
    /\ pc = "route_after_execution"
    /\ state \in ProbeStates
    /\ bq_client = Some(TheClient)
    /\ n_generate = 0
    /\ n_fetch = 0
    /\ n_exec = 0
    /\ n_analyze = 0
    /\ exec_log = <<>>
    /\ prompt = NoPrompt
    /\ probe = NoCall

RouteNext == Route

RouteSpec == RouteInit /\ [][RouteNext]_vars

----------------------------------------------------------------------------
\* validate_sql_query applied to arbitrary statements

\* leading whitespace of a statement
ValidatorLeads ==
    {<<>>,
     <<" ">>,
     <<"\n","\t">>}

\* first word of a statement
ValidatorHeads ==
    {<<"S","E","L","E","C","T">>,
     <<"s","e","l","e","c","t">>,
     <<"S","e","L","e","C","t">>,
     <<"S","E","L","E","C","T","E","D">>,
     <<"S","H","O","W">>,
     <<"D","R","O","P">>,
     <<"U","p","d","a","t","e">>,
     <<"(","s","e","l","e","c","t">>}

\* rest of a statement
ValidatorTails ==
    {<<>>,
     <<" ","x">>,
     <<" ","(","x",")">>,
     <<" ","(","x">>,
     <<" ","x",")">>,
     <<" ","d","r","o","p">>,
     <<" ","D","R","O","P","x">>,
     <<" ","x",";","D","e","l","e","t","e">>,
     <<" ","d","e","l","e","t","e","\n">>,
     <<"\t","T","r","u","n","c","a","t","e","\t","(">>,
     <<" ","u","n","d","e","l","e","t","e">>,
     <<" ","c","r","e","a","t","e",")">>,
     <<" ","I","n","s","e","r","t"," ","(","x",")">>,
     <<" ","a","l","t","e","r"," ","u","p","d","a","t","e">>}

ValidatorInputs ==
    {lead \o head \o tail : lead \in ValidatorLeads, head \in ValidatorHeads, tail \in ValidatorTails}
    \cup {SqlPlain, SqlDrop, SqlUnbalanced, SqlEmpty}

ValidateInit ==
    /\ pc = "call"
    /\ probe \in {[fn |-> "validate_sql_query", arg |-> Some(sql_query), ret |-> None] :
                     sql_query \in ValidatorInputs}
    /\ state = initial_state(UserQuery1)
    /\ bq_client = None
    /\ n_generate = 0
    /\ n_fetch = 0
    /\ n_exec = 0
    /\ n_analyze = 0
    /\ exec_log = <<>>
    /\ prompt = NoPrompt

\* one call of validate_sql_query, up to its return
ValidateCall ==
    /\ pc = "call"
    /\ probe.fn = "validate_sql_query"
    /\ probe' = [probe EXCEPT !.ret = Some(validate_sql_query(Val(probe.arg)))]
    /\ pc' = "return"
    /\ UNCHANGED <<state, bq_client, n_generate, n_fetch, n_exec, n_analyze, exec_log, prompt>>

ValidateNext == ValidateCall

ValidateSpec == ValidateInit /\ [][ValidateNext]_vars

----------------------------------------------------------------------------
\* the markdown clean-up applied to one SQL text in its three wrappings

\* leading whitespace of a SQL text
FenceLeads ==
    {<<>>,
     <<" ">>,
     <<"\n">>}

\* SQL texts, some quoting identifiers or fence characters
FenceBodies ==
    {<<"S","E","L","E","C","T"," ","*"," ","F","R","O","M"," ","t">>,
     <<"S","E","L","E","C","T"," ",Backtick,"a",Backtick," ","F","R","O","M"," ","t">>,
     <<"s","e","l","e","c","t"," ","1">>,
     <<>>,
     <<"s","q","l">>,
     <<"S","E","L","E","C","T"," ","'",Backtick,Backtick,Backtick,"'">>,
     <<"S","E","L","E","C","T"," ","'","a",Backtick,Backtick,Backtick,"s","q","l","'">>}

\* end of a SQL text
FenceTails ==
    {<<>>,
     <<" ">>,
     <<";","\n">>}

FenceTexts ==
    {lead \o body \o tail : lead \in FenceLeads, body \in FenceBodies, tail \in FenceTails}

\* backend output: the text in a code fence tagged sql
WrapTagged(s) == FENCE_SQL \o <<"\n">> \o s \o <<"\n">> \o FENCE

\* backend output: the text in a bare code fence
WrapBare(s) == FENCE \o <<"\n">> \o s \o <<"\n">> \o FENCE

FenceInit ==
    /\ pc = "call_tagged"
    /\ probe \in {[fn |-> "clean_sql", arg |-> Some(s), ret |-> None] : s \in FenceTexts}
    /\ state = initial_state(UserQuery1)
    /\ bq_client = None
    /\ n_generate = 0
    /\ n_fetch = 0
    /\ n_exec = 0
    /\ n_analyze = 0
    /\ exec_log = <<>>
    /\ prompt = NoPrompt

\* the clean-up of one backend output; the results are kept in call order
CleanCall ==
    /\ pc \in {"call_tagged", "call_bare", "call_plain"}
    /\ probe.fn = "clean_sql"
    /\ LET content == IF pc = "call_tagged" THEN WrapTagged(Val(probe.arg))
                      ELSE IF pc = "call_bare" THEN WrapBare(Val(probe.arg))
                      ELSE Val(probe.arg)
           sofar == IF probe.ret = None THEN <<>> ELSE Val(probe.ret)
       IN  probe' = [probe EXCEPT !.ret = Some(Append(sofar, clean_sql(content)))]
    /\ pc' = IF pc = "call_tagged" THEN "call_bare"
             ELSE IF pc = "call_bare" THEN "call_plain"
             ELSE "return"
    /\ UNCHANGED <<state, bq_client, n_generate, n_fetch, n_exec, n_analyze, exec_log, prompt>>

FenceNext == CleanCall

FenceSpec == FenceInit /\ [][FenceNext]_vars

----------------------------------------------------------------------------
\* invoke_with_retry applied to arbitrary clients, overrides and backends

\* what the backend answers to one call
InvokeOutcomes ==
    {Reply(ReplyFirst), Reply(ReplySecond),
     Failure(BackendDown), Failure(BackendQuota), Failure(BackendRateLimit)}

\* the answers of the backend to its successive calls
Backends == [1..MaxAttempts -> InvokeOutcomes]

\* a number of attempts, given or not
AttemptCounts == {None} \cup {Some(n) : n \in 0..MaxAttempts}

InvokeInit ==
    /\ pc = "call"
    /\ probe \in {[fn |-> "invoke_with_retry",
                    arg |-> Some([max_retries |-> r, max_attempts |-> a, backend |-> b]),
                    ret |-> None] :
                      r \in AttemptCounts, a \in AttemptCounts, b \in Backends}
    /\ state = initial_state(UserQuery1)
    /\ bq_client = None
    /\ n_generate = 0
    /\ n_fetch = 0
    /\ n_exec = 0
    /\ n_analyze = 0
    /\ exec_log = <<>>
    /\ prompt = NoPrompt

\* one call of invoke_with_retry on a client built with max_retries
InvokeCall ==
    /\ pc = "call"
    /\ probe.fn = "invoke_with_retry"
    /\ LET arg == Val(probe.arg)
       IN  probe' = [probe EXCEPT !.ret = Some(invoke_with_retry(GeminiClient(arg.max_retries),
                                                                arg.backend, arg.max_attempts))]
    /\ pc' = "return"
    /\ UNCHANGED <<state, bq_client, n_generate, n_fetch, n_exec, n_analyze, exec_log, prompt>>

InvokeNext == InvokeCall

InvokeSpec == InvokeInit /\ [][InvokeNext]_vars

----------------------------------------------------------------------------
\* the three steps that use the llm of create_data_analysis_graph, applied to
\* arbitrary backends

\* llm.invoke(messages) in a step: llm is get_gemini_model(...), the model
\* get_model returns, and invoke is one call of it; backend[i] is the outcome
\* of the i-th call
llm_invoke(backend) == [calls |-> 1, result |-> backend[1]]

\* a state the named step is entered in
StepStates(fn) ==
    IF fn = "analyze_request"
    THEN {initial_state(UserQuery1)}
    ELSE IF fn = "generate_sql"
    THEN {Merge(initial_state(UserQuery1), analyze_request_node(initial_state(UserQuery1), llm)) :
             llm \in IntentOutcomes}
    ELSE {[initial_state(UserQuery1) EXCEPT !.analysis_type = Some("general"),
                                            !.sql_query = Some(SqlPlain),
                                            !.query_results = Some(DataFrame(n))] :
             n \in 1..MaxRows}

StepInit ==
    /\ pc = "call"
    /\ \E fn \in {"analyze_request", "generate_sql", "analyze_results"}, b \in Backends :
          /\ probe = [fn |-> fn, arg |-> Some([backend |-> b]), ret |-> None]
          /\ state \in StepStates(fn)
    /\ bq_client = Some(TheClient)
    /\ n_generate = 0
    /\ n_fetch = 0
    /\ n_exec = 0
    /\ n_analyze = 0
    /\ exec_log = <<>>
    /\ prompt = NoPrompt

\* the update the step returns, with the number of backend calls it made
StepReturn(llm, update) ==
    /\ probe' = [probe EXCEPT !.ret = Some([calls |-> llm.calls, update |-> update])]
    /\ state' = Merge(state, update)
    /\ pc' = "return"
    /\ UNCHANGED <<bq_client, n_generate, n_fetch, n_exec, n_analyze, exec_log, prompt>>

StepAnalyzeRequest ==
    /\ pc = "call"
    /\ probe.fn = "analyze_request"
    /\ LET llm == llm_invoke(Val(probe.arg).backend)
       IN  StepReturn(llm, analyze_request_node(state, llm.result))

StepGenerateSql ==
    /\ pc = "call"
    /\ probe.fn = "generate_sql"
    /\ LET llm == llm_invoke(Val(probe.arg).backend)
       IN  StepReturn(llm, generate_sql_node(state, get_all_table_schemas(bq_client, {}),
                                             llm.result))

StepAnalyzeResults ==
    /\ pc = "call"
    /\ probe.fn = "analyze_results"
    /\ LET llm == llm_invoke(Val(probe.arg).backend)
       IN  StepReturn(llm, analyze_results_node(state, llm.result))

StepNext == StepAnalyzeRequest \/ StepGenerateSql \/ StepAnalyzeResults

StepSpec == StepInit /\ [][StepNext]_vars

----------------------------------------------------------------------------
\* the global client of tools/bigquery_tools.py under arbitrary sequences of
\* initialize_bigquery_client and get_bigquery_client calls; exec_log holds the
\* calls made so far

\* arguments of initialize_bigquery_client
ProjectIds == {None, Some("my-project")}
DatasetIds == {"bigquery-public-data.thelook_ecommerce", "other.dataset"}

\* outcomes of the constructor: it returns, or raises
Constructions == {[ok |-> TRUE], Failure(ErrCredentials)}

SingletonInit ==
    /\ pc = "idle"
    /\ bq_client = None
    /\ state = initial_state(UserQuery1)
    /\ n_generate = 0
    /\ n_fetch = 0
    /\ n_exec = 0
    /\ n_analyze = 0
    /\ exec_log = <<>>
    /\ prompt = NoPrompt
    /\ probe = NoCall

InitializeCall ==
    /\ pc = "idle"
    /\ Len(exec_log) < MaxCalls
    /\ \E project_id \in ProjectIds, dataset_id \in DatasetIds, constructed \in Constructions :
          LET call == initialize_bigquery_client(bq_client, project_id, dataset_id, constructed)
          IN  /\ bq_client' = call._bq_client
              /\ probe' = [fn |-> "initialize_bigquery_client",
                           arg |-> Some([project_id |-> project_id, dataset_id |-> dataset_id]),
                           ret |-> Some(call.ret)]
              /\ exec_log' = Append(exec_log, probe')
    /\ UNCHANGED <<pc, state, n_generate, n_fetch, n_exec, n_analyze, prompt>>

GetCall ==
    /\ pc = "idle"
    /\ Len(exec_log) < MaxCalls
    /\ probe' = [fn |-> "get_bigquery_client", arg |-> None,
                 ret |-> Some(get_bigquery_client(bq_client))]
    /\ exec_log' = Append(exec_log, probe')
    /\ UNCHANGED <<pc, state, bq_client, n_generate, n_fetch, n_exec, n_analyze, prompt>>

SingletonNext == InitializeCall \/ GetCall

SingletonSpec == SingletonInit /\ [][SingletonNext]_vars



----------------------------------------------------------------------------
\* Properties

\* an error text that names one of the four non-retryable failure classes, in any letter case
NonRetryableText(e) ==
    \E term \in {TERM_PERMISSION, TERM_AUTHENTICATION, TERM_CREDENTIALS, TERM_QUOTA} :
        IsSubstring(term, Lower(e))

\* an Execute Query step in which the executor was called and failed with retryable text
RetryableFailure(entry) ==
    entry.called /\ ~entry.ok /\ ~NonRetryableText(Val(entry.text))

\* the retry policy as the specification words it
RetryPermitted(error, retry_count) ==
    error # None /\ retry_count < 2 /\ ~NonRetryableText(Val(error))

\* the last message of the conversation carries neither the apology nor the minor-issue note
NoErrorNote(s) ==
    /\ Len(s.messages) = 1
    /\ ~IsSubstring(NOTE_HEAD, s.messages[1].content)
    /\ ~StartsWith(s.messages[1].content, APOLOGY_HEAD)

\* C1: SQL text that the safety validator rejects is never passed to the
\* query executor: every text handed to the executor passes validate_sql_query.
C1_RejectedSqlNeverExecuted ==
    \A i \in 1..Len(exec_log) :
        exec_log[i].called => validate_sql_query(Val(exec_log[i].sql)).valid

\* C2: every run terminates: whatever the backend, the catalog, the validator
\* and the executor answer, the workflow eventually reaches Respond and then END.
C2_EveryRunTerminates == <>(pc = "END" /\ Len(state.messages) = 1)

\* C3: retry bound: in a run in which every Execute Query step is an executor
\* failure with retryable error text, there are at most 3 such attempts, and
\* the run leaves the loop to Respond, without Analyze Results and with no results.
C3_RetryBound ==
    (exec_log # <<>> /\ \A i \in 1..Len(exec_log) : RetryableFailure(exec_log[i]))
    => /\ Len(exec_log) <= 3
       /\ n_exec <= 3
       /\ pc # "analyze_results"
       /\ n_analyze = 0
       /\ state.query_results = None

\* C3 witness: a run that failed twice with retryable text and has responded
C3_Witness ==
    /\ pc = "END"
    /\ Len(exec_log) = 2
    /\ \A i \in 1..Len(exec_log) : RetryableFailure(exec_log[i])
    /\ state.query_results = None

\* C4: scenario B: when the executor fails on the first two execution attempts
\* with retryable error text, the run makes a third attempt; retry_count after
\* the three Execute Query steps is 1, 2 and (on success) 0, and the final
\* response carries no error note.
C4_ScenarioB ==
    (/\ Len(exec_log) >= 2
     /\ \A i \in 1..2 : /\ RetryableFailure(exec_log[i])
                        /\ validate_sql_query(Val(exec_log[i].sql)).valid)
    => /\ exec_log[1].retry_count = 1
       /\ exec_log[2].retry_count = 2
       /\ pc \in {"analyze_results", "respond", "END"} => Len(exec_log) >= 3
       /\ (Len(exec_log) >= 3 /\ exec_log[3].ok) =>
             /\ exec_log[3].retry_count = 0
             /\ (pc = "END" /\ Len(exec_log) = 3) => NoErrorNote(state)

\* C5: non-retryable short-circuit: from a state left by an Execute Query
\* failure (no results, error set) whose error text contains permission,
\* authentication, credentials or quota in any letter case, the routing
\* decision is Respond, for every value of retry_count.
C5_NonRetryableShortCircuit ==
    [][(/\ pc = "route_after_execution"
        /\ state.query_results = None
        /\ state.error # None
        /\ NonRetryableText(Val(state.error)))
       => pc' = "respond"]_vars

\* C5 witness: routed to Respond with retry_count 0 after a mixed-case permission error
C5_Witness ==
    /\ pc = "respond"
    /\ state.retry_count = 0
    /\ state.query_results = None
    /\ state.error = Some(EXEC_ERROR_PREFIX \o ErrPermission)

\* C6: scenario C: in a run whose first Execute Query step fails with the text
\* "Permission denied accessing dataset", Generate SQL runs exactly once,
\* Analyze Results never runs, and the single response message is the
\* apologetic error-only message, which contains the error text.
C6_ScenarioC ==
    (/\ exec_log # <<>>
     /\ exec_log[1].called
     /\ ~exec_log[1].ok
     /\ exec_log[1].text = Some(ErrPermission))
    => /\ n_generate = 1
       /\ n_analyze = 0
       /\ pc \in {"route_after_execution", "respond", "END"}
       /\ pc = "END" =>
             /\ Len(state.messages) = 1
             /\ state.messages[1].content =
                    APOLOGY_HEAD \o EXEC_ERROR_PREFIX \o ErrPermission \o APOLOGY_GAP
                    \o APOLOGY_TAIL
             /\ IsSubstring(ErrPermission, state.messages[1].content)

\* C6 witness: the run of scenario C has ended
C6_Witness ==
    /\ pc = "END"
    /\ Len(exec_log) = 1
    /\ exec_log[1].text = Some(ErrPermission)
    /\ Len(state.messages) = 1

\* the states that differ from s only in fields other than error, query_results
\* and retry_count
OtherFields(s) ==
    {[s EXCEPT !.analysis_type = a, !.sql_query = q, !.insights = i] :
        a \in {None, Some(GENERAL_QUERY)}, q \in {None, Some(SqlPlain)},
        i \in {None, Some(InsightText)}}

\* C7: should_retry_query is a function of (error, retry_count) alone: it is
\* true if and only if error is set, retry_count < 2 and the lower-cased error
\* text contains none of permission, authentication, credentials, quota; and
\* the state it is called on is left as it was.
C7_RetryPolicy ==
    /\ [](/\ should_retry_query(state) = RetryPermitted(state.error, state.retry_count)
          /\ \A s \in OtherFields(state), r \in {None, Some(DataFrame(1))} :
                should_retry_query([s EXCEPT !.query_results = r])
                    = should_retry_query(state))
    /\ [][pc = "route_after_execution" => state' = state]_vars

\* C7 witness: a retry was granted at retry_count 1 and the state kept
C7_Witness ==
    /\ pc = "generate_sql"
    /\ state.retry_count = 1
    /\ state.error = Some(EXEC_ERROR_PREFIX \o ErrSyntax)

\* the routing decision as the specification words it
ExpectedRoute(s) ==
    IF s.error # None /\ RetryPermitted(s.error, s.retry_count) THEN "generate_sql"
    ELSE IF s.query_results # None THEN "analyze_results"
    ELSE IF s.error # None THEN "respond"
    ELSE "analyze_results"

\* C8: the routing decision after Execute Query is Generate SQL if error is set
\* and retry is permitted, else Analyze Results if query_results is present,
\* else Respond if error is set, else Analyze Results; it depends only on error,
\* query_results and retry_count and names one of these three steps.
C8_RoutingDecision ==
    [][pc = "route_after_execution"
       => /\ pc' = ExpectedRoute(state)
          /\ pc' \in {"generate_sql", "analyze_results", "respond"}
          /\ \A s \in OtherFields(state) : route_after_execution(s) = pc']_vars

\* C8 witness: results and a retryable error together still route to Generate SQL
C8_Witness ==
    /\ pc = "generate_sql"
    /\ state.query_results # None
    /\ state.error # None
    /\ state.retry_count < 2

\* C9: Execute Query with a present sql_query has exactly two outcomes: on
\* executor success query_results is stored, error is absent and retry_count
\* is 0; on executor failure query_results is absent, error carries the
\* executor's message and retry_count is one more than before the step.
C9_ExecuteOutcomes ==
    [][(pc = "execute_query" /\ Truthy(state.sql_query))
       => /\ n_exec' = n_exec + 1
          /\ \/ /\ state'.query_results # None
                /\ state'.error = None
                /\ state'.retry_count = 0
             \/ /\ state'.query_results = None
                /\ \E e \in ExecErrors \cup {CLIENT_NOT_INITIALIZED} :
                      state'.error = Some(EXEC_ERROR_PREFIX \o e)
                /\ state'.retry_count = state.retry_count + 1
          /\ Len(exec_log) < MaxLog =>
                LET entry == exec_log'[Len(exec_log')]
                IN  /\ entry.called
                    /\ entry.ok => state'.error = None
                    /\ ~entry.ok => state'.error = Some(EXEC_ERROR_PREFIX \o Val(entry.text))]_vars

\* C9 witness: a success after a failure has reset retry_count from 1 to 0
C9_Witness ==
    /\ Len(exec_log) = 2
    /\ exec_log[1].called /\ ~exec_log[1].ok /\ exec_log[1].retry_count = 1
    /\ exec_log[2].called /\ exec_log[2].ok
    /\ state.retry_count = 0
    /\ state.query_results # None

\* C10: Execute Query with an absent or empty sql_query sets error to the
\* no-query message and clears query_results, does not call the executor, and
\* leaves retry_count unchanged.
C10_NoQueryShortCircuit ==
    [][(pc = "execute_query" /\ (state.sql_query = None \/ state.sql_query = Some(<<>>)))
       => /\ state'.error = Some(NO_SQL_ERROR)
          /\ state'.query_results = None
          /\ n_exec' = n_exec
          /\ state'.retry_count = state.retry_count]_vars

\* C10 witness: a no-query step taken when retry_count was already 1
C10_Witness ==
    /\ pc = "route_after_execution"
    /\ state.error = Some(NO_SQL_ERROR)
    /\ state.retry_count = 1
    /\ n_exec = 1

\* C11: conversation accumulation: no step other than Respond changes the
\* conversation, Respond appends exactly one message to it, and at END the
\* conversation is the initial (empty) one with exactly one message appended,
\* whatever the number of retries.
C11_ConversationAccumulation ==
    /\ [](pc = "END" => Len(state.messages) = Len(initial_state(state.user_query).messages) + 1)
    /\ [][/\ pc # "respond" => state'.messages = state.messages
          /\ pc = "respond" =>
                /\ Len(state'.messages) = Len(state.messages) + 1
                /\ SubSeq(state'.messages, 1, Len(state.messages)) = state.messages]_vars

\* C11 witness: a run with a retry has ended with a one-message conversation
C11_Witness ==
    /\ pc = "END"
    /\ n_generate >= 2
    /\ n_analyze = 1
    /\ Len(state.messages) = 1

\* the text Respond composes, before any data-summary suffix, as the
\* specification words it
ExpectedBody(s) ==
    IF s.error # None /\ s.insights = None
    THEN APOLOGY_HEAD \o Val(s.error) \o APOLOGY_GAP \o APOLOGY_TAIL
    ELSE IF s.error # None /\ s.insights # None
    THEN Val(s.insights) \o NOTE_HEAD \o Val(s.error) \o NOTE_TAIL
    ELSE Val(s.insights)

\* C12: in every state Respond is entered in, its message is: with an error and
\* no insights the apology with the error text and the retry suggestion; with
\* an error and insights the insights followed by the minor-issue note with the
\* error; with no error the insights alone (a data-summary suffix may follow).
C12_RespondComposition ==
    [][pc = "respond"
       => /\ state.error = None => state.insights # None
          /\ LET body == ExpectedBody(state)
                 content == state'.messages[Len(state'.messages)].content
             IN  /\ StartsWith(content, body)
                 /\ \/ content = body
                    \/ StartsWith(SubSeq(content, Len(body) + 1, Len(content)), SUMMARY_HEAD)
                 /\ state.error # None => IsSubstring(Val(state.error), content)
                 /\ (state.error # None /\ state.insights = None)
                        => IsSubstring(APOLOGY_TAIL, content)]_vars

\* C12 witness: a partial success (insights and error) has been answered
C12_Witness ==
    /\ pc = "END"
    /\ state.error # None
    /\ state.insights # None
    /\ Len(state.messages) = 1
    /\ IsSubstring(NOTE_HEAD \o Val(state.error) \o NOTE_TAIL, state.messages[1].content)

EndsWith(s, suffix) ==
    /\ Len(suffix) <= Len(s)
    /\ SubSeq(s, Len(s) - Len(suffix) + 1, Len(s)) = suffix

\* the row-count data-summary suffix for n rows
SummarySuffix(n) == SUMMARY_HEAD \o Str(n) \o SUMMARY_TAIL

HasSummarySuffix(content) == \E n \in 0..(MaxRows + 1) : EndsWith(content, SummarySuffix(n))

\* C13: the message Respond posts ends with the row-count data-summary suffix
\* (with the number of rows) exactly when query_results is present with one or
\* more rows; a finished run whose last execution succeeded with rows carries
\* the suffix, also after a failed insight generation.
C13_DataSummarySuffix ==
    /\ [][pc = "respond"
          => LET content == state'.messages[Len(state'.messages)].content
                 with_rows == state.query_results # None /\ Val(state.query_results).nrows >= 1
             IN  /\ HasSummarySuffix(content) <=> with_rows
                 /\ with_rows => EndsWith(content, SummarySuffix(Val(state.query_results).nrows))]_vars
    /\ [](/\ pc = "END"
          /\ exec_log # <<>>
          /\ Len(exec_log) < MaxLog
          /\ exec_log[Len(exec_log)].ok
          /\ state.query_results # None
          /\ Val(state.query_results).nrows >= 1
          => EndsWith(state.messages[Len(state.messages)].content,
                      SummarySuffix(Val(state.query_results).nrows)))

\* C13 witness: a run with rows whose insight generation failed has finished
\* with the suffix
C13_Witness ==
    /\ pc = "END"
    /\ state.query_results # None
    /\ Val(state.query_results).nrows = MaxRows
    /\ state.error # None
    /\ StartsWith(Val(state.error), INSIGHT_ERROR_PREFIX)
    /\ EndsWith(state.messages[1].content, SummarySuffix(MaxRows))

\* the state carries the result of a successful execution with zero rows
ZeroRows(s) == s.query_results # None /\ Val(s.query_results).nrows = 0

\* C14: after a successful execution with zero rows the run is routed to
\* Analyze Results; that step sets insights to the fixed no-data text, leaves
\* error absent and renders no prompt for the generation backend; Respond then
\* posts the no-data text with neither apology nor note.
C14_EmptyResultShortCircuit ==
    [][/\ (pc = "route_after_execution" /\ ZeroRows(state))
          => pc' = "analyze_results"
       /\ (pc = "analyze_results" /\ ZeroRows(state))
          => /\ state'.insights = Some(NO_DATA_INSIGHTS)
             /\ state'.error = None
             /\ prompt' = prompt
             /\ pc' = "respond"
       /\ (pc = "respond" /\ ZeroRows(state))
          => /\ state.error = None
             /\ state'.messages = state.messages \o <<[type |-> "ai", content |-> NO_DATA_INSIGHTS]>>
             /\ NoErrorNote(state')]_vars

\* C14 witness: a run whose execution returned zero rows has answered with the
\* no-data text and never prompted for insights
C14_Witness ==
    /\ pc = "END"
    /\ ZeroRows(state)
    /\ n_exec >= 1
    /\ n_analyze = 1
    /\ prompt.kind # "insight"
    /\ state.messages = <<[type |-> "ai", content |-> NO_DATA_INSIGHTS]>>

ValidTypes ==
    {PRODUCT_PERFORMANCE, CUSTOMER_SEGMENTATION, SALES_TRENDS, GEOGRAPHIC_PATTERNS, GENERAL_QUERY}

\* C15: Classify Intent yields a valid analysis type for every backend output
\* and every backend failure: an output that is one of the five values after
\* trim and lowercase gives that value, any other output gives general_query,
\* both with error absent; a backend failure gives general_query with error
\* set; every state after the step carries one of the five values.
C15_ClassifyIntentNeverFails ==
    /\ pc = "analyze_request"
       => \A llm \in IntentOutcomes :
             LET after == Merge(state, analyze_request_node(state, llm))
             IN  /\ after.analysis_type # None
                 /\ Val(after.analysis_type) \in ValidTypes
                 /\ (llm.ok /\ Lower(Strip(llm.text)) \in ValidTypes)
                    => after.analysis_type = Some(Lower(Strip(llm.text))) /\ after.error = None
                 /\ (llm.ok /\ Lower(Strip(llm.text)) \notin ValidTypes)
                    => after.analysis_type = Some(GENERAL_QUERY) /\ after.error = None
                 /\ ~llm.ok
                    => after.analysis_type = Some(GENERAL_QUERY) /\ after.error # None
    /\ pc # "analyze_request"
       => state.analysis_type # None /\ Val(state.analysis_type) \in ValidTypes

\* C15 witness: the step has run on a failing backend
C15_Witness ==
    /\ pc = "generate_sql"
    /\ n_generate = 0
    /\ state.analysis_type = Some(GENERAL_QUERY)
    /\ state.error # None
    /\ StartsWith(Val(state.error), INTENT_ERROR_PREFIX)

\* the schema step of Generate SQL cannot succeed: nothing cached, no client
SchemaUnavailable == state.schema_context = None /\ bq_client = None

C17_SchemaFetchedOnce ==
    [][(pc = "generate_sql" /\ bq_client # None /\ n_fetch >= 1)
       => state.schema_context # None /\ n_fetch' = n_fetch]_vars

\* the error text is the one Generate SQL sets on a backend or schema failure
GenerationFailureText(e) ==
    StartsWith(e, SQL_GEN_ERROR_PREFIX) \/ StartsWith(e, SCHEMA_ERROR_PREFIX)

\* C18: for every state Generate SQL is entered in and every failure of the
\* schema fetch or of the generation backend, the step returns error set and
\* sql_query absent; the Execute Query step that follows such a failure does
\* not call the executor and reports the missing query.
C18_GenerationFailureClearsQuery ==
    /\ [](pc = "generate_sql"
          => \A failed \in SchemaFailures, llm \in SqlOutcomes :
                LET schema == get_all_table_schemas(bq_client, failed)
                    after == Merge(state, generate_sql_node(state, schema, llm))
                IN  ((state.schema_context = None /\ ~schema.ok) \/ ~llm.ok)
                    => /\ after.error # None
                       /\ GenerationFailureText(Val(after.error))
                       /\ after.sql_query = None)
    /\ [][(/\ pc = "execute_query"
           /\ state.error # None
           /\ GenerationFailureText(Val(state.error)))
          => /\ n_exec' = n_exec
             /\ state'.error = Some(NO_SQL_ERROR)
             /\ state'.query_results = None
             /\ Len(exec_log) < MaxLog => ~exec_log'[Len(exec_log')].called]_vars

\* C18 witness: a retry whose generation failed after an executed query has
\* passed Execute Query without a second executor call
C18_Witness ==
    /\ pc = "route_after_execution"
    /\ state.error = Some(NO_SQL_ERROR)
    /\ state.sql_query = None
    /\ n_generate >= 2
    /\ n_exec = 1

ForbiddenWords == {KW_DROP, KW_DELETE, KW_TRUNCATE, KW_INSERT, KW_UPDATE, KW_ALTER, KW_CREATE}

\* rule (a): the forbidden words that some whitespace-delimited token of the
\* statement equals, ignoring case
ForbiddenTokens(text) == {Lower(token) : token \in Range(Split(text))} \cap ForbiddenWords

\* rule (b): the trimmed, lower-cased statement begins with select
BeginsWithSelect(text) == StartsWith(Lower(Strip(text)), SELECT_KW)

\* rule (c): as many opening as closing parentheses
BalancedParentheses(text) == Count(text, "(") = Count(text, ")")

\* a call of the validator has returned
ValidatorReturned == pc = "return" /\ probe.fn = "validate_sql_query"

\* C19: the validator accepts a statement if and only if no whitespace-delimited
\* token equals, ignoring case, a forbidden word, the trimmed lower-cased
\* statement begins with select, and the parentheses balance.
C19_ValidatorAccepts ==
    ValidatorReturned
    => LET text == Val(probe.arg)
       IN  Val(probe.ret).valid
           <=> /\ ForbiddenTokens(text) = {}
               /\ BeginsWithSelect(text)
               /\ BalancedParentheses(text)

\* C19 witness: a statement with a forbidden word inside a longer token has
\* been accepted
C19_Witness ==
    /\ ValidatorReturned
    /\ Val(probe.ret).valid
    /\ \E word \in ForbiddenWords : IsSubstring(word, Lower(Val(probe.arg)))

\* C20: the validator always returns; it gives a reason exactly when it
\* rejects, and the reason is the forbidden-keyword reason naming a forbidden
\* token when rule (a) fails, else the must-be-SELECT reason when rule (b)
\* fails, else the unbalanced-parentheses reason.
C20_ValidatorReason ==
    /\ (pc = "call" /\ probe.fn = "validate_sql_query")
       => LET ret == validate_sql_query(Val(probe.arg))
          IN  ret.valid \in BOOLEAN /\ (ret.reason = None \/ Val(ret.reason) \in Seq(STRING))
    /\ ValidatorReturned
       => LET text == Val(probe.arg)
              ret == Val(probe.ret)
          IN  /\ ret.valid <=> ret.reason = None
              /\ ForbiddenTokens(text) # {}
                 => \E word \in ForbiddenTokens(text) :
                       ret.reason = Some(DANGEROUS_REASON_PREFIX \o word \o DANGEROUS_REASON_SUFFIX)
              /\ (ForbiddenTokens(text) = {} /\ ~BeginsWithSelect(text))
                 => ret.reason = Some(NOT_SELECT_REASON)
              /\ (ForbiddenTokens(text) = {} /\ BeginsWithSelect(text) /\ ~BalancedParentheses(text))
                 => ret.reason = Some(UNBALANCED_REASON)

\* C20 witness: a statement failing all three rules has been rejected with the
\* forbidden-keyword reason
C20_Witness ==
    /\ ValidatorReturned
    /\ ForbiddenTokens(Val(probe.arg)) # {}
    /\ ~BeginsWithSelect(Val(probe.arg))
    /\ ~BalancedParentheses(Val(probe.arg))
    /\ StartsWith(Val(Val(probe.ret).reason), DANGEROUS_REASON_PREFIX)

\* the three wrappings of a text have been cleaned
CleanReturned == pc = "return" /\ probe.fn = "clean_sql"

\* C21: for every SQL text, the text in a code fence tagged sql, the text in a
\* bare code fence and the text unwrapped give the same sql_query after the
\* clean-up.
C21_FenceStripping ==
    CleanReturned
    => LET ret == Val(probe.ret)
       IN  ret[1] = ret[3] /\ ret[2] = ret[3]

\* C22: whenever the workflow run raises, run_analysis returns (the run is at
\* its end) a state with the fields of the initial state: user_query kept, all
\* result fields absent, retry_count 0, an empty conversation, and error set to
\* the wrapped message of the exception.
C22_TopLevelFailure ==
    [][(probe'.fn = "graph.invoke" /\ pc # "END")
       => /\ pc' = "END"
          /\ state' = [messages |-> <<>>,
                       user_query |-> state.user_query,
                       analysis_type |-> None,
                       sql_query |-> None,
                       query_results |-> None,
                       insights |-> None,
                       error |-> Some(AGENT_ERROR_PREFIX \o Val(probe'.ret)),
                       retry_count |-> 0,
                       schema_context |-> None]]_vars

\* C22 witness: a run that had executed a query and counted a retry has ended
\* in the degraded state
C22_Witness ==
    /\ pc = "END"
    /\ probe.fn = "graph.invoke"
    /\ n_exec >= 1
    /\ n_generate >= 2
    /\ state.retry_count = 0
    /\ state.sql_query = None
    /\ state.messages = <<>>
    /\ StartsWith(Val(state.error), AGENT_ERROR_PREFIX)

\* the caller holds the response text of a finished run
ResponseReturned == pc = "response" /\ probe.fn = "get_response_from_state"

\* C23: for every state run_analysis returns, the response text is not empty;
\* it is the content of the Respond message when the conversation has one, and
\* otherwise a text that carries the error of the state.
C23_AlwaysTextualResponse ==
    ResponseReturned
    => LET text == Val(probe.ret)
       IN  /\ text # <<>>
           /\ state.messages # <<>>
              => /\ text = state.messages[Len(state.messages)].content
                 /\ state.messages[Len(state.messages)].type = "ai"
           /\ state.messages = <<>>
              => /\ state.error # None
                 /\ StartsWith(text, ERROR_OCCURRED_PREFIX)
                 /\ IsSubstring(Val(state.error), text)

\* C23 witness: the degraded state of a run that raised an exception without
\* a message has been turned into an error text
C23_Witness ==
    /\ ResponseReturned
    /\ state.messages = <<>>
    /\ Val(probe.ret) = ERROR_OCCURRED_PREFIX \o AGENT_ERROR_PREFIX

\* a call of invoke_with_retry has returned or raised
InvokeReturned == pc = "return" /\ probe.fn = "invoke_with_retry"

\* the configured maximum of the client of the call
ConfiguredMaximum == IF Val(probe.arg).max_retries = None THEN 3 ELSE Val(Val(probe.arg).max_retries)

\* the outcome the specification gives a call that is allowed n attempts, for
\* n >= 1: the first success among the first n backend calls and nothing
\* after it, or the failure of the n-th call after n failed calls
WithinAttempts(n) ==
    LET backend == Val(probe.arg).backend
        ret == Val(probe.ret)
        successes == {i \in 1..n : backend[i].ok}
    IN  /\ ret.calls <= n
        /\ successes # {}
           => /\ ret.calls = SetMin(successes)
              /\ ret.result = backend[SetMin(successes)]
        /\ (successes = {} /\ n >= 1)
           => /\ ret.calls = n
              /\ ret.result = Failure(backend[n].text)

\* C24 as stated: with N the max_attempts argument if given and the configured
\* maximum (default 3) otherwise, invoke_with_retry calls the backend at most N
\* times, returns the first successful response without a further call, and
\* raises the failure of the last call when all N calls fail.
C24_InvokeWithRetryAsStated ==
    InvokeReturned
    => WithinAttempts(IF Val(probe.arg).max_attempts # None
                      THEN Val(Val(probe.arg).max_attempts) ELSE ConfiguredMaximum)

\* C24 amended: N is the max_attempts argument if given and not 0, and the
\* configured maximum (default 3) otherwise; invoke_with_retry calls the backend
\* at most N times, returns the first successful response without a further
\* call, and for N >= 1 raises the failure of the last call when all N calls
\* fail; for N = 0 it calls nothing and raises an error that is no backend
\* failure.
C24_InvokeWithRetry ==
    InvokeReturned
    => LET given == Val(probe.arg).max_attempts
           N == IF given # None /\ Val(given) # 0 THEN Val(given) ELSE ConfiguredMaximum
       IN  /\ WithinAttempts(N)
           /\ N = 0 => /\ Val(probe.ret).calls = 0
                       /\ ~Val(probe.ret).result.ok
                       /\ Val(probe.ret).result.text \notin {BackendDown, BackendQuota, BackendRateLimit}

\* C24 witness: a client with the default maximum and no override has raised
\* the third failure after three failed calls, the earlier failures differing
C24_Witness ==
    /\ InvokeReturned
    /\ Val(probe.arg).max_retries = None
    /\ Val(probe.arg).max_attempts = None
    /\ Val(probe.ret).calls = 3
    /\ Val(probe.ret).result = Failure(BackendQuota)
    /\ Val(probe.arg).backend[1] = Failure(BackendDown)

FixedTables == {"orders", "order_items", "products", "users"}

\* C25: with an initialised client the schema fetch returns, for every set of
\* tables whose catalog call fails, an entry for each of the four fixed tables;
\* a failing table's entry is the empty field list, and every other entry is
\* what it is when no call fails and when one failing call less fails; the
\* schema a run caches has the four entries.
C25_SchemaFetchPerTable ==
    /\ (pc = "generate_sql" /\ bq_client # None)
       => \A failed \in SUBSET FixedTables :
             LET fetched == get_all_table_schemas(bq_client, failed)
                 clean == get_all_table_schemas(bq_client, {})
             IN  /\ fetched.ok
                 /\ DOMAIN fetched.schemas = FixedTables
                 /\ \A t \in failed : fetched.schemas[t] = <<>>
                 /\ \A t \in FixedTables \ failed :
                       /\ fetched.schemas[t] = clean.schemas[t]
                       /\ fetched.schemas[t] # <<>>
                       /\ \A u \in failed :
                             get_all_table_schemas(bq_client, failed \ {u}).schemas[t]
                                = fetched.schemas[t]
    /\ state.schema_context # None => DOMAIN Val(state.schema_context) = FixedTables

\* C25 witness: a run has cached a schema in which one table failed and the
\* tables before and after it did not
C25_Witness ==
    /\ pc = "execute_query"
    /\ state.schema_context # None
    /\ Val(state.schema_context)["products"] = <<>>
    /\ Val(state.schema_context)["order_items"] # <<>>
    /\ Val(state.schema_context)["users"] # <<>>

\* C26 as stated: an input equal, ignoring case and surrounding blanks, to
\* exit, quit, bye or q ends the loop; one equal to help or ? prints the usage
\* and starts no run; every other input line starts one workflow run with the
\* input as user_query.
C26_CliLoopAsStated ==
    [][pc = "dispatch"
       => LET words == Lower(Strip(Val(probe.arg)))
          IN  IF words \in {<<"e","x","i","t">>, <<"q","u","i","t">>, <<"b","y","e">>, <<"q">>}
              THEN pc' = "exited"
              ELSE IF words \in {<<"h","e","l","p">>, <<"?">>}
              THEN pc' = "input" /\ probe'.ret = Some("help") /\ state' = state
              ELSE /\ pc' = "analyze_request"
                   /\ state' = initial_state(Strip(Val(probe.arg)))]_vars

\* C26 amended: as stated, except that an input of blanks only (or nothing) is
\* skipped: no usage is printed and no run starts; every other input line that
\* is not blank starts one workflow run with the trimmed input as user_query;
\* once ended, the loop takes no further step.
C26_CliLoop ==
    [][/\ pc = "dispatch"
          => LET words == Lower(Strip(Val(probe.arg)))
             IN  IF words \in {<<"e","x","i","t">>, <<"q","u","i","t">>, <<"b","y","e">>, <<"q">>}
                 THEN pc' = "exited" /\ state' = state
                 ELSE IF words \in {<<"h","e","l","p">>, <<"?">>}
                 THEN pc' = "input" /\ probe'.ret = Some("help") /\ state' = state
                 ELSE IF words = <<>>
                 THEN pc' = "input" /\ probe'.ret # Some("help") /\ state' = state
                 ELSE /\ pc' = "analyze_request"
                      /\ state' = initial_state(Strip(Val(probe.arg)))
                      /\ n_generate' = 0 /\ n_exec' = 0
       /\ pc # "exited"]_vars

\* C26 witness: an input that only begins with an exit word has been forwarded
\* and its run has finished
C26_Witness ==
    /\ pc = "response"
    /\ state.user_query = <<"q","u","i","t"," ","n","o","w">>
    /\ state.messages # <<>>

\* the state carries the error Generate SQL records for a rejected statement
ValidationError(s) == s.error # None /\ StartsWith(Val(s.error), INVALID_SQL_PREFIX)

\* C27: after a validation failure in Generate SQL the recorded error is
\* neither overwritten nor cleared by Execute Query, the run is routed back to
\* Generate SQL, and that step renders the recovery prompt with the validator's
\* reason as its error.
C27_ValidationFailureRecovery ==
    [][/\ (pc = "execute_query" /\ ValidationError(state))
          => state'.error = state.error
       /\ (pc = "route_after_execution" /\ ValidationError(state))
          => pc' = "generate_sql"
       /\ (pc = "generate_sql" /\ ValidationError(state))
          => /\ prompt'.kind = "recovery"
             /\ prompt'.error_message = state.error]_vars

\* C28: retry_count changes in Execute Query only: a failed executor call
\* adds exactly 1, a successful one sets it to 0, and the step without a query
\* leaves it alone, as do Classify Intent, Generate SQL (validation and
\* backend failures included), the routing, Analyze Results and Respond.
C28_RetryCountFrame ==
    [][/\ pc # "execute_query" => state'.retry_count = state.retry_count
       /\ pc = "execute_query"
          => /\ (state.sql_query = None \/ state.sql_query = Some(<<>>))
                => /\ state'.retry_count = state.retry_count
                   /\ n_exec' = n_exec
             /\ (state.sql_query # None /\ state.sql_query # Some(<<>>))
                => /\ n_exec' = n_exec + 1
                   /\ state'.query_results # None
                      => state'.retry_count = 0 /\ state'.error = None
                   /\ state'.query_results = None
                      => /\ state'.retry_count = state.retry_count + 1
                         /\ StartsWith(Val(state'.error), EXEC_ERROR_PREFIX)]_vars

\* C28 witness: a second executor call has succeeded after a failed first one,
\* and the count, kept at 1 through the routing and Generate SQL, is 0 again
C28_Witness ==
    /\ pc = "route_after_execution"
    /\ n_exec = 2
    /\ n_generate = 2
    /\ Len(exec_log) = 2
    /\ exec_log[1].retry_count = 1
    /\ exec_log[2].ok
    /\ state.retry_count = 0

\* the fields of the state that a step changes
ChangedFields == {k \in DOMAIN state : state'[k] # state[k]}

\* C29: every step changes only fields of its partial update: Classify Intent
\* only analysis_type and error, Generate SQL only sql_query, schema_context
\* and error, Execute Query only query_results, retry_count and error, the
\* routing nothing, Analyze Results only insights and error, Respond only the
\* conversation, which it extends; user_query never changes, and insights
\* change in Analyze Results only.
C29_FieldMergeRule ==
    [][/\ DOMAIN state' = DOMAIN state
       /\ state'.user_query = state.user_query
       /\ pc = "analyze_request" => ChangedFields \subseteq {"analysis_type", "error"}
       /\ pc = "generate_sql" => ChangedFields \subseteq {"sql_query", "schema_context", "error"}
       /\ pc = "execute_query" => ChangedFields \subseteq {"query_results", "retry_count", "error"}
       /\ pc = "route_after_execution" => ChangedFields = {}
       /\ pc = "analyze_results" => ChangedFields \subseteq {"insights", "error"}
       /\ pc = "respond"
          => /\ ChangedFields = {"messages"}
             /\ SubSeq(state'.messages, 1, Len(state.messages)) = state.messages
       /\ state'.insights # state.insights => pc = "analyze_results"]_vars

\* C29 witness: a run that retried has finished with every field set, the
\* earlier steps' fields still in place
C29_Witness ==
    /\ pc = "END"
    /\ n_generate = 2
    /\ state.user_query = UserQuery1
    /\ state.analysis_type = Some(PRODUCT_PERFORMANCE)
    /\ state.schema_context # None
    /\ state.sql_query = Some(SqlPlain)
    /\ state.query_results # None
    /\ state.insights = Some(InsightText)
    /\ Len(state.messages) = 1

\* the errors a state may carry into a step
CarriedErrors ==
    {None, Some(NO_SQL_ERROR), Some(INTENT_ERROR_PREFIX \o BackendDown),
     Some(INVALID_SQL_PREFIX \o NOT_SELECT_REASON), Some(EXEC_ERROR_PREFIX \o ErrSyntax),
     Some(INSIGHT_ERROR_PREFIX \o BackendQuota)}

\* C30: in every state a step is entered in, and whatever error that state
\* carries, a success of the step leaves error absent: Classify Intent when
\* the backend answers, Generate SQL when the schema is there, the backend
\* answers and the statement is accepted, Execute Query when the executor
\* returns rows or none, Analyze Results when the backend answers or there is
\* nothing to analyse.
C30_SuccessClearsError ==
    \A e \in CarriedErrors \cup {state.error} :
       LET s == [state EXCEPT !.error = e]
       IN  /\ pc = "analyze_request"
              => \A llm \in IntentOutcomes :
                    llm.ok => Merge(s, analyze_request_node(s, llm)).error = None
           /\ pc = "generate_sql"
              => \A failed \in SchemaFailures, llm \in SqlOutcomes :
                    LET schema == get_all_table_schemas(bq_client, failed)
                        after == Merge(s, generate_sql_node(s, schema, llm))
                    IN  (/\ s.schema_context # None \/ schema.ok
                         /\ llm.ok
                         /\ after.sql_query # None
                         /\ validate_sql_query(Val(after.sql_query)).valid)
                        => after.error = None
           /\ (pc = "execute_query" /\ state.sql_query # None /\ state.sql_query # Some(<<>>))
              => \A result \in execute_query_direct(bq_client) :
                    result.ok => Merge(s, execute_query_node(s, result)).error = None
           /\ pc = "analyze_results"
              => \A llm \in InsightOutcomes :
                    (llm.ok \/ state.query_results = None \/ Val(state.query_results).nrows = 0)
                    => Merge(s, analyze_results_node(s, llm)).error = None

\* C30 witness: Generate SQL has succeeded on a retry and the error of the
\* failed execution before it is gone
C30_Witness ==
    /\ pc = "execute_query"
    /\ n_generate = 2
    /\ Len(exec_log) = 1
    /\ exec_log[1].called
    /\ ~exec_log[1].ok
    /\ state.retry_count = 1
    /\ state.error = None

\* C31: every run follows the state machine: it starts at Classify Intent,
\* which no step leads back to; Generate SQL is followed by Execute Query and
\* its routing; the routing leads to Generate SQL, Analyze Results or Respond;
\* Analyze Results leads to Respond and runs at most once; Respond leads to
\* Done and runs at most once; Done is entered from Respond only and is final.
C31_StepOrder ==
    /\ [][/\ pc' # "analyze_request"
          /\ pc = "analyze_request" => (pc' = "generate_sql" /\ n_generate = 0)
          /\ pc = "generate_sql" => pc' = "execute_query"
          /\ pc = "execute_query" => pc' = "route_after_execution"
          /\ pc = "route_after_execution"
             => pc' \in {"generate_sql", "analyze_results", "respond"}
          /\ pc = "analyze_results" => (pc' = "respond" /\ n_analyze = 0)
          /\ pc = "respond" => (pc' = "END" /\ state.messages = <<>>)
          /\ pc' = "END" => pc = "respond"
          /\ pc' = "generate_sql" => pc \in {"analyze_request", "route_after_execution"}
          /\ pc # "END"]_vars
    /\ [](n_analyze <= 1 /\ Len(state.messages) <= 1)

\* C31 witness: a run that re-entered Generate SQL has gone through Analyze
\* Results and Respond to Done
C31_Witness ==
    /\ pc = "END"
    /\ n_generate = 2
    /\ n_exec = 2
    /\ n_analyze = 1
    /\ Len(state.messages) = 1
    /\ state.error = None

\* C32: whenever Respond is about to run with insights and error both present,
\* Analyze Results has run in this run on a result with rows and its backend
\* call failed: error is the insight-generation failure and insights is the
\* templated fallback with the row count and the column names.
C32_InsightsAndErrorCoexist ==
    (pc = "respond" /\ state.insights # None /\ state.error # None)
    => /\ n_analyze = 1
       /\ prompt.kind = "insight"
       /\ StartsWith(Val(state.error), INSIGHT_ERROR_PREFIX)
       /\ SubSeq(Val(state.error), Len(INSIGHT_ERROR_PREFIX) + 1, Len(Val(state.error)))
             \in {BackendDown, BackendQuota}
       /\ state.query_results # None
       /\ Val(state.query_results).nrows >= 1
       /\ LET df == Val(state.query_results)
              text == Val(state.insights)
          IN  /\ StartsWith(text, FALLBACK_HEAD \o Str(df.nrows) \o FALLBACK_ROWS)
              /\ \A i \in 1..Len(df.columns) : IsSubstring(df.columns[i], text)
              /\ text # InsightText

\* C32 witness: Respond is about to run after a failed insight generation on
\* the largest result
C32_Witness ==
    /\ pc = "respond"
    /\ state.insights # None
    /\ state.error = Some(INSIGHT_ERROR_PREFIX \o BackendQuota)
    /\ Val(state.query_results).nrows = MaxRows

\* C33: after every Execute Query step exactly one of error and query_results
\* is present, an error being a non-empty text; the routing therefore never
\* decides on a state with neither, the case of its default branch.
C33_ExactlyOneOfErrorAndResults ==
    /\ [](pc = "route_after_execution"
          => /\ (state.error # None) # (state.query_results # None)
             /\ state.error # None => Val(state.error) # <<>>)
    /\ [][pc = "route_after_execution"
          => ~(state.error = None /\ state.query_results = None)]_vars

\* C33 witness: the routing is about to decide on a state with an empty result
\* and no error after a failed first attempt
C33_Witness ==
    /\ pc = "route_after_execution"
    /\ state.error = None
    /\ state.query_results = Some(DataFrame(0))
    /\ n_exec = 2

RateLimitTexts == {BackendQuota, BackendRateLimit}

\* C35: invoke_with_retry waits exactly once after each failed attempt that is
\* followed by another attempt, and at no other time: after failed attempt k
\* (from 0) 2^k seconds when the failure text contains "rate limit", "quota" or
\* "429" in any case, and 0.5 seconds for any other failure.
C35_BackoffSchedule ==
    InvokeReturned
    => LET backend == Val(probe.arg).backend
           ret == Val(probe.ret)
       IN  ret.sleeps
             = [i \in 1..(ret.calls - 1) |->
                  [attempt |-> i - 1,
                   ms |-> IF backend[i].text \in RateLimitTexts
                          THEN (2 ^ (i - 1)) * 1000 ELSE 500]]

\* one of the three steps that call the generation backend has returned
StepReturned ==
    pc = "return" /\ probe.fn \in {"analyze_request", "generate_sql", "analyze_results"}

\* the step that returned recorded a failure of the generation backend
BackendErrorRecorded ==
    /\ state.error # None
    /\ \E b \in InvokeOutcomes :
          /\ ~b.ok
          /\ Val(state.error) \in {INTENT_ERROR_PREFIX \o b.text,
                                   SQL_GEN_ERROR_PREFIX \o b.text,
                                   INSIGHT_ERROR_PREFIX \o b.text}

\* C36: a step of Classify Intent, Generate SQL or Analyze Results records a
\* backend error in the state only after the client's attempts (3 for the
\* client the workflow builds) are exhausted: three backend calls were made
\* and all of them failed.
C36_StepsUseBoundedRetry ==
    (StepReturned /\ BackendErrorRecorded)
    => /\ Val(probe.ret).calls = 3
       /\ \A i \in 1..3 : ~Val(probe.arg).backend[i].ok

\* C37: in every state of a run retry_count is 0, 1 or 2, and whenever
\* query_results is present retry_count is 0.
C37_RetryCountRange ==
    /\ state.retry_count \in {0, 1, 2}
    /\ state.query_results # None => state.retry_count = 0

\* C37 witness: the executor failed once and then succeeded: retry_count went
\* to 1 and is 0 again with the results present
C37_Witness ==
    /\ Len(exec_log) = 2
    /\ exec_log[1].called /\ exec_log[1].retry_count = 1
    /\ exec_log[2].ok
    /\ state.query_results # None
    /\ state.retry_count = 0

\* C38: the query executor is called at most twice in a run; the routing
\* decision after an executor success is Analyze Results; and once the second
\* call of the executor has failed retry_count is 2, the routing decision is
\* Respond and the run is never in Generate SQL again.
C38_ExecutorCalledAtMostTwice ==
    /\ n_exec <= 2
    /\ (pc = "route_after_execution" /\ state.query_results # None)
       => route_after_execution(state) = "analyze_results"
    /\ (n_exec = 2 /\ state.query_results = None)
       => /\ state.retry_count = 2
          /\ pc # "generate_sql"
          /\ pc = "route_after_execution" => route_after_execution(state) = "respond"

\* C38 witness: a run has ended after two failed calls of the executor
C38_Witness ==
    /\ pc = "END"
    /\ n_exec = 2
    /\ state.retry_count = 2
    /\ state.query_results = None
    /\ state.error # None
    /\ StartsWith(Val(state.error), EXEC_ERROR_PREFIX)

\* the Generate SQL step that just ended failed at the schema fetch or at the
\* generation backend
GenerateFailed ==
    /\ pc = "execute_query"
    /\ state.error # None
    /\ \/ StartsWith(Val(state.error), SCHEMA_ERROR_PREFIX)
       \/ StartsWith(Val(state.error), SQL_GEN_ERROR_PREFIX)

\* the Generate SQL step rendered the normal prompt, or failed at the schema
\* fetch before rendering any prompt
NormalPromptUsed ==
    \/ prompt' = [kind |-> "normal", error_message |-> None, failed_query |-> None]
    \/ /\ prompt' = prompt
       /\ state'.error # None
       /\ StartsWith(Val(state'.error), SCHEMA_ERROR_PREFIX)

InitializeCalls == {i \in 1..Len(exec_log) : exec_log[i].fn = "initialize_bigquery_client"}
CompletedInitializeCalls == {i \in InitializeCalls : Val(exec_log[i].ret).ok}

\* the client made of the arguments of the i-th call
ClientOfCall(i) ==
    BigQueryRunner(Val(exec_log[i].arg).project_id, Val(exec_log[i].arg).dataset_id)

\* every get_bigquery_client call so far failed exactly when no initialize
\* call had completed before it, and so would one made now
GetFailsIffNoneCompleted ==
    /\ \A i \in 1..Len(exec_log) :
          exec_log[i].fn = "get_bigquery_client"
          => (~Val(exec_log[i].ret).ok <=> {j \in CompletedInitializeCalls : j < i} = {})
    /\ ~get_bigquery_client(bq_client).ok <=> CompletedInitializeCalls = {}

\* C40 as stated: after any sequence of initialize_bigquery_client calls the
\* client is the one built by the first call, later arguments being ignored,
\* and get_bigquery_client fails if and only if no initialize call has
\* completed.
C40_SingletonAsStated ==
    /\ bq_client # None => bq_client = Some(ClientOfCall(SetMin(InitializeCalls)))
    /\ GetFailsIffNoneCompleted

\* C40 amended: the client is created at most once: after any sequence of
\* initialize_bigquery_client calls, with any arguments, the client is the one
\* built by the first call that completed, the arguments of later calls being
\* ignored (they return that client), and there is no client while no call
\* has completed; get_bigquery_client fails if and only if no initialize call
\* has completed.
C40_Singleton ==
    /\ CompletedInitializeCalls = {} => bq_client = None
    /\ CompletedInitializeCalls # {}
       => /\ bq_client = Some(ClientOfCall(SetMin(CompletedInitializeCalls)))
          /\ \A i \in CompletedInitializeCalls :
                Val(exec_log[i].ret).client = ClientOfCall(SetMin(CompletedInitializeCalls))
    /\ GetFailsIffNoneCompleted

\* C40 witness: a first call failed, a second built the client, and a third
\* with other arguments left it alone
C40_Witness ==
    /\ Len(exec_log) = 3
    /\ InitializeCalls = {1, 2, 3}
    /\ CompletedInitializeCalls = {2, 3}
    /\ ClientOfCall(3) # ClientOfCall(2)
    /\ bq_client = Some(ClientOfCall(2))

====
